---------------------------- MODULE Spec2Model ----------------------------
(***************************************************************************)
(* A model of faceify's MobileVideoConverter (src/src/MobileVideoConverter *)
(* .ts): the sampler of detectFacesAcrossTimeline, the crop geometry of    *)
(* calculateVerticalCrop, the smoothing and segment planning of            *)
(* processVideoWithDynamicCropping, the control flow of convertVideo with  *)
(* its failure paths and temporary files, and loadFaceDetectionModels      *)
(* under concurrent calls.                                                 *)
(*                                                                         *)
(* JavaScript numbers are modelled as exact rationals [n, d] in lowest     *)
(* terms (d > 0): the values the code works with (half seconds, thirds of  *)
(* a duration, half pixels, weighted centroids) are not integers, and      *)
(* equality of two of them decides what a Set keeps.                       *)
(***************************************************************************)
EXTENDS Integers, Sequences, FiniteSets, TLC

(***************************************************************************)
(* Numbers                                                                 *)
(***************************************************************************)
Abs(k) ==
    IF k < 0 THEN -k ELSE k

RECURSIVE GCD(_, _)
GCD(a, b) ==
    IF b = 0 THEN a ELSE GCD(b, a % b)

\* The number n/d (d # 0) in lowest terms with a positive denominator.
Rat(n, d) ==
    LET Reduced(s, g) == [n |-> (s * n) \div g, d |-> (s * d) \div g]
    IN  Reduced(IF d < 0 THEN -1 ELSE 1, GCD(Abs(n), Abs(d)))

RInt(k) ==
    [n |-> k, d |-> 1]

RAdd(a, b) ==
    Rat(a.n * b.d + b.n * a.d, a.d * b.d)

RSub(a, b) ==
    Rat(a.n * b.d - b.n * a.d, a.d * b.d)

RMul(a, b) ==
    Rat(a.n * b.n, a.d * b.d)

\* a / b for b # 0 (no division of the code has a zero divisor in the model).
RDiv(a, b) ==
    Rat(a.n * b.d, a.d * b.n)

RLt(a, b) ==
    a.n * b.d < b.n * a.d

RLe(a, b) ==
    a.n * b.d <= b.n * a.d

RMax(a, b) ==
    IF RLt(a, b) THEN b ELSE a

RMin(a, b) ==
    IF RLt(b, a) THEN b ELSE a

RAbs(a) ==
    [n |-> Abs(a.n), d |-> a.d]

\* Math.floor: the greatest integer <= a.
RFloor(a) ==
    a.n \div a.d

\* Math.round: floor(a + 1/2).
RRound(a) ==
    (2 * a.n + a.d) \div (2 * a.d)

Half ==
    Rat(1, 2)

(***************************************************************************)
(* Arrays                                                                  *)
(***************************************************************************)
\* Array.prototype.sort((a, b) => a - b) on an array of numbers.
RECURSIVE InsertSorted(_, _)
InsertSorted(x, s) ==
    IF s = <<>> THEN <<x>>
    ELSE IF RLe(x, Head(s)) THEN <<x>> \o s
    ELSE <<Head(s)>> \o InsertSorted(x, Tail(s))

RECURSIVE SortNumbers(_)
SortNumbers(s) ==
    IF s = <<>> THEN <<>> ELSE InsertSorted(Head(s), SortNumbers(Tail(s)))

\* Array.from(set).sort((a, b) => a - b): the elements of a Set in increasing order.
RECURSIVE SortSet(_)
SortSet(S) ==
    IF S = {} THEN <<>>
    ELSE LET m == CHOOSE x \in S : \A y \in S : RLe(x, y)
         IN  <<m>> \o SortSet(S \ {m})

Range(s) ==
    {s[k] : k \in 1..Len(s)}

\* Array.prototype.includes
Includes(s, x) ==
    x \in Range(s)

(***************************************************************************)
(* Sampler: detectSceneChanges, fallbackToTimeSampling and steps 2-4 of    *)
(* detectFacesAcrossTimeline                                               *)
(***************************************************************************)
everyNSeconds ==
    15

maxGap ==
    30

minSamples ==
    5

maxSamples ==
    25

\* The for loop of fallbackToTimeSampling: time, time + 15, ... while < duration - 5.
RECURSIVE IntervalSamples(_, _)
IntervalSamples(time, duration) ==
    IF RLt(time, RSub(duration, RInt(5)))
    THEN <<time>> \o IntervalSamples(RAdd(time, RInt(everyNSeconds)), duration)
    ELSE <<>>

\* The sampling without the push of lines 465-467.
TimeSamplingWithoutEndAnchor(duration) ==
    <<Half>> \o IntervalSamples(RInt(everyNSeconds), duration)

fallbackToTimeSampling(duration) ==
    LET samples == <<Half>> \o IntervalSamples(RInt(everyNSeconds), duration)
    IN  IF RLt(samples[Len(samples)], RSub(duration, RInt(5)))
        THEN Append(samples, RSub(duration, RInt(2)))
        ELSE samples

\* The filter of detectSceneChanges: keep a timestamp only if it is at least 3 s
\* after the last kept one (lastTimestamp starts at 0).
RECURSIVE FilterCloseTimestamps(_, _)
FilterCloseTimestamps(sorted, lastTimestamp) ==
    IF sorted = <<>> THEN <<>>
    ELSE IF RLe(RInt(3), RSub(Head(sorted), lastTimestamp))
         THEN <<Head(sorted)>> \o FilterCloseTimestamps(Tail(sorted), Head(sorted))
         ELSE FilterCloseTimestamps(Tail(sorted), lastTimestamp)

\* The intermediate points added between current and next when the gap exceeds maxGap.
IntermediatePoints(current, next) ==
    LET gap == RSub(next, current)
        numIntermediatePoints == RFloor(RDiv(gap, RInt(maxGap)))
        stepSize == RDiv(gap, RInt(numIntermediatePoints + 1))
    IN  IF RLt(RInt(maxGap), gap)
        THEN [j \in 1..numIntermediatePoints |-> RAdd(current, RMul(RInt(j), stepSize))]
        ELSE <<>>

RECURSIVE AllIntermediatePoints(_, _)
AllIntermediatePoints(finalTimestamps, i) ==
    IF i >= Len(finalTimestamps) THEN <<>>
    ELSE IntermediatePoints(finalTimestamps[i], finalTimestamps[i + 1])
         \o AllIntermediatePoints(finalTimestamps, i + 1)

\* The 'end' handler of detectSceneChanges on the timestamps parsed from ffmpeg's output.
SceneChangesOnEnd(rawTimestamps, duration) ==
    LET filteredTimestamps == FilterCloseTimestamps(SortNumbers(rawTimestamps), RInt(0))
        withStart == IF RLt(RInt(5), filteredTimestamps[1])
                     THEN <<Half>> \o filteredTimestamps
                     ELSE filteredTimestamps
        finalTimestamps == IF RLt(withStart[Len(withStart)], RSub(duration, RInt(5)))
                           THEN Append(withStart, RSub(duration, RInt(2)))
                           ELSE withStart
    IN  IF Len(filteredTimestamps) >= 3
        THEN SortNumbers(finalTimestamps \o AllIntermediatePoints(finalTimestamps, 1))
        ELSE SortSet(Range(filteredTimestamps) \cup Range(fallbackToTimeSampling(duration)))

\* Step 2: the Set of 0.5, the scene changes and max(0.5, duration - 2).
KeyTimestamps(sceneChangeTimestamps, duration) ==
    {Half} \cup Range(sceneChangeTimestamps)
           \cup {RMax(Half, RSub(duration, RInt(2)))}

\* Step 3: with fewer than minSamples, add duration * i / (additionalSamples + 1).
WithAdditionalSamples(keyTimestamps, duration) ==
    LET additionalSamples == minSamples - Cardinality(keyTimestamps)
    IN  IF Cardinality(keyTimestamps) < minSamples
        THEN keyTimestamps \cup
             {RDiv(RMul(duration, RInt(i)), RInt(additionalSamples + 1)) :
                  i \in 1..additionalSamples}
        ELSE keyTimestamps

\* The striding loop of step 4: timestamps[floor(i)] for i = 0, step, 2 step, ... < length.
RECURSIVE StrideSamples(_, _, _)
StrideSamples(timestamps, i, step) ==
    IF RLt(i, RInt(Len(timestamps)))
    THEN <<timestamps[RFloor(i) + 1]>> \o StrideSamples(timestamps, RAdd(i, step), step)
    ELSE <<>>

\* Step 4 without lines 273-279: the stride alone.
DownSampleStrideOnly(timestamps) ==
    IF Len(timestamps) > maxSamples
    THEN SortNumbers(StrideSamples(timestamps, RInt(0), Rat(Len(timestamps), maxSamples)))
    ELSE timestamps

\* Step 4: more than maxSamples timestamps are sampled evenly, the first and the
\* last of the sorted list added when the stride missed them.
DownSample(timestamps) ==
    LET step == Rat(Len(timestamps), maxSamples)
        strided == StrideSamples(timestamps, RInt(0), step)
        withFirst == IF Includes(strided, timestamps[1])
                     THEN strided ELSE <<timestamps[1]>> \o strided
        withLast == IF Includes(withFirst, timestamps[Len(timestamps)])
                    THEN withFirst ELSE Append(withFirst, timestamps[Len(timestamps)])
    IN  IF Len(timestamps) > maxSamples THEN SortNumbers(withLast) ELSE timestamps

\* The combined, sorted list before down-sampling.
CombinedTimestamps(sceneChangeTimestamps, duration) ==
    SortSet(WithAdditionalSamples(KeyTimestamps(sceneChangeTimestamps, duration), duration))

\* Steps 2-4: the list of timestamps whose frames are analysed.
SampleTimestamps(sceneChangeTimestamps, duration) ==
    DownSample(CombinedTimestamps(sceneChangeTimestamps, duration))

(***************************************************************************)
(* Box aggregator: calculateVerticalCrop                                   *)
(***************************************************************************)
\* const aspectRatio = 9 / 16 (lines 694 and 996).
aspectRatio ==
    Rat(9, 16)

\* Math.max(0, Math.min(limit, v)): lines 1026-1027, 1076-1077 and 1083-1084.
ClampNoLowerBound(v, limit) ==
    RMin(limit, v)

ClampToFrame(v, limit) ==
    RMax(RInt(0), RMin(limit, v))

\* Lines 1001-1009: the crop window's width and height.
CropSize(videoWidth, videoHeight) ==
    IF RLt(aspectRatio, Rat(videoWidth, videoHeight))
    THEN [width |-> RFloor(RMul(RInt(videoHeight), aspectRatio)), height |-> videoHeight]
    ELSE [width |-> videoWidth, height |-> RFloor(RDiv(RInt(videoWidth), aspectRatio))]

FaceCenterX(face) ==
    RAdd(RInt(face.x), Rat(face.width, 2))

FaceCenterY(face) ==
    RAdd(RInt(face.y), Rat(face.height, 2))

\* The centre crop of lines 1012-1013 kept for one face.
SingleFaceCentreCrop(face, videoWidth, videoHeight, size) ==
    [x |-> RInt((videoWidth - size.width) \div 2),
     y |-> RInt((videoHeight - size.height) \div 2)]

\* Lines 1017-1045: one face. The window is centred on the face, then moved so
\* that the face's left and right edges are inside it.
SingleFaceCrop(face, videoWidth, videoHeight, size) ==
    LET limitX == RInt(videoWidth - size.width)
        limitY == RInt(videoHeight - size.height)
        faceLeft == RInt(face.x)
        faceRight == RInt(face.x + face.width)
        \* Lines 1036-1038: the face's left edge is left of the window.
        AfterLeft(cropX) ==
            IF RLt(faceLeft, cropX) THEN RMax(RInt(0), faceLeft) ELSE cropX
        \* Lines 1039-1041: the face's right edge is right of the window.
        AfterRight(cropX) ==
            IF RLt(RAdd(cropX, RInt(size.width)), faceRight)
            THEN RMin(limitX, RSub(faceRight, RInt(size.width)))
            ELSE cropX
    IN  [x |-> AfterRight(AfterLeft(
                   ClampToFrame(RSub(FaceCenterX(face), Rat(size.width, 2)), limitX))),
         y |-> ClampToFrame(RSub(FaceCenterY(face), Rat(size.height, 2)), limitY)]

\* Lines 1057-1062: a face's weight, its area times its centrality in [0.5, 1].
FaceWeight(face, videoWidth, videoHeight) ==
    LET offX == RMul(RDiv(RAbs(RSub(FaceCenterX(face), Rat(videoWidth, 2))),
                          RInt(videoWidth)), RInt(2))
        offY == RMul(RDiv(RAbs(RSub(FaceCenterY(face), Rat(videoHeight, 2))),
                          RInt(videoHeight)), RInt(2))
        centrality == RSub(RInt(1), RDiv(RMin(RInt(1), RAdd(offX, offY)), RInt(2)))
    IN  RMul(RInt(face.width * face.height), centrality)

\* The forEach of lines 1053-1068: totalWeight, weightedX and weightedY.
RECURSIVE WeightedSums(_, _, _)
WeightedSums(faces, videoWidth, videoHeight) ==
    IF faces = <<>>
    THEN [totalWeight |-> RInt(0), weightedX |-> RInt(0), weightedY |-> RInt(0)]
    ELSE LET Added(rest, weight) ==
                 [totalWeight |-> RAdd(rest.totalWeight, weight),
                  weightedX |-> RAdd(rest.weightedX, RMul(FaceCenterX(Head(faces)), weight)),
                  weightedY |-> RAdd(rest.weightedY, RMul(FaceCenterY(Head(faces)), weight))]
         IN  Added(WeightedSums(Tail(faces), videoWidth, videoHeight),
                   FaceWeight(Head(faces), videoWidth, videoHeight))

\* Lines 1046-1079: several faces. The window is centred on the weighted centre.
MultiFaceCrop(faces, videoWidth, videoHeight, size, default) ==
    LET CentredOn(sums) ==
            IF RLt(RInt(0), sums.totalWeight)
            THEN [x |-> ClampToFrame(RSub(RDiv(sums.weightedX, sums.totalWeight),
                                          Rat(size.width, 2)),
                                     RInt(videoWidth - size.width)),
                  y |-> ClampToFrame(RSub(RDiv(sums.weightedY, sums.totalWeight),
                                          Rat(size.height, 2)),
                                     RInt(videoHeight - size.height))]
            ELSE default
    IN  CentredOn(WeightedSums(faces, videoWidth, videoHeight))

\* calculateVerticalCrop(inputPath, faces, videoInfo): faces is <<>> for an empty or
\* an undefined list (the code treats both alike, line 1016); every caller passes
\* videoInfo.
calculateVerticalCrop(faces, info) ==
    LET \* Lines 1012-1013: the centre crop.
        Center(size) ==
            [x |-> RInt((info.width - size.width) \div 2),
             y |-> RInt((info.height - size.height) \div 2)]
        Position(size, center) ==
            IF Len(faces) = 0 THEN center
            ELSE IF Len(faces) = 1
                 THEN SingleFaceCrop(faces[1], info.width, info.height, size)
                 ELSE MultiFaceCrop(faces, info.width, info.height, size, center)
        \* Lines 1083-1091: the final clamp and the returned rectangle.
        Clamped(size, position) ==
            [width |-> size.width,
             height |-> size.height,
             x |-> ClampToFrame(position.x, RInt(info.width - size.width)),
             y |-> ClampToFrame(position.y, RInt(info.height - size.height))]
        Crop(size) == Clamped(size, Position(size, Center(size)))
    IN  Crop(CropSize(info.width, info.height))

(***************************************************************************)
(* Gap filler: postProcessFaceTimeline                                     *)
(***************************************************************************)
\* The first face of before held instead of the interpolation.
FaceBeforeHeld(faceBefore, faceAfter, pointPosition) ==
    faceBefore

\* Lines 517-522: the face interpolated between the first faces of before and after.
InterpolatedFace(faceBefore, faceAfter, pointPosition) ==
    LET Between(a, b) == RRound(RAdd(RInt(a), RMul(RInt(b - a), pointPosition)))
    IN  [x |-> Between(faceBefore.x, faceAfter.x),
         y |-> Between(faceBefore.y, faceAfter.y),
         width |-> Between(faceBefore.width, faceAfter.width),
         height |-> Between(faceBefore.height, faceAfter.height)]

\* Every gap filled with the faces of the first reliable point of the timeline.
FilledFromFirstReliable(faceTimeline, reliablePoints, k) ==
    faceTimeline[CHOOSE r \in reliablePoints : \A q \in reliablePoints : r <= q].faces

\* The loop with reliablePoints computed anew for every point: the points filled
\* earlier in the pass, which are the points before k, count as reliable.
RECURSIVE FilledFromFilledPoints(_, _, _)
FilledFromFilledPoints(faceTimeline, reliablePoints, k) ==
    LET point == faceTimeline[k]
        later == {r \in reliablePoints :
                      RLt(point.timestamp, faceTimeline[r].timestamp)}
        beforeFaces ==
            IF (k - 1) \in reliablePoints THEN faceTimeline[k - 1].faces
            ELSE FilledFromFilledPoints(faceTimeline, reliablePoints, k - 1)
        after == faceTimeline[CHOOSE r \in later : \A q \in later :
                     RLe(faceTimeline[r].timestamp, faceTimeline[q].timestamp)]
        pointPosition == RDiv(RSub(point.timestamp, faceTimeline[k - 1].timestamp),
                              RSub(after.timestamp, faceTimeline[k - 1].timestamp))
    IN  IF k > 1 /\ later # {}
        THEN <<InterpolatedFace(beforeFaces[1], after.faces[1], pointPosition)>>
        ELSE IF k > 1 THEN beforeFaces
        ELSE IF later # {} THEN after.faces
        ELSE point.faces

\* Lines 495-543 for one point without faces; reliablePoints are the indexes of the
\* points that had faces when the pass started (line 487).
FilledFaces(faceTimeline, reliablePoints, k) ==
    LET point == faceTimeline[k]
        earlier == {r \in reliablePoints :
                        RLt(faceTimeline[r].timestamp, point.timestamp)}
        later == {r \in reliablePoints :
                      RLt(point.timestamp, faceTimeline[r].timestamp)}
        before == faceTimeline[CHOOSE r \in earlier : \A q \in earlier :
                      RLe(faceTimeline[q].timestamp, faceTimeline[r].timestamp)]
        after == faceTimeline[CHOOSE r \in later : \A q \in later :
                     RLe(faceTimeline[r].timestamp, faceTimeline[q].timestamp)]
        pointPosition == RDiv(RSub(point.timestamp, before.timestamp),
                              RSub(after.timestamp, before.timestamp))
    IN  IF earlier # {} /\ later # {}
        THEN <<InterpolatedFace(before.faces[1], after.faces[1], pointPosition)>>
        ELSE IF earlier # {} THEN before.faces
        ELSE IF later # {} THEN after.faces
        ELSE point.faces

\* postProcessFaceTimeline(faceTimeline, videoInfo), which mutates the timeline in place.
postProcessFaceTimeline(faceTimeline) ==
    LET reliablePoints == {k \in 1..Len(faceTimeline) : Len(faceTimeline[k].faces) > 0}
    IN  IF Len(faceTimeline) = 0 \/ reliablePoints = 1..Len(faceTimeline)
             \/ reliablePoints = {}
        THEN faceTimeline
        ELSE [k \in 1..Len(faceTimeline) |->
                 IF k \in reliablePoints THEN faceTimeline[k]
                 ELSE [timestamp |-> faceTimeline[k].timestamp,
                       faces |-> FilledFaces(faceTimeline, reliablePoints, k)]]

(***************************************************************************)
(* Timeline smoother: smoothCropTimeline and allCropPointsEqual            *)
(***************************************************************************)
minTimeDiff ==
    5

margin ==
    5

\* Lines 830-854 with the weighted sums left undivided by 1 + weightPrev + weightNext.
SmoothedPointUndivided(smoothed, i) ==
    LET prev == smoothed[i - 1].cropOptions
        current == smoothed[i].cropOptions
        next == smoothed[i + 1].cropOptions
        Sum(p, c, n, weightPrev, weightNext) ==
            RAdd(RAdd(RMul(p, weightPrev), c), RMul(n, weightNext))
        Blend(c, sum) ==
            RInt(RRound(RAdd(RMul(c, Rat(7, 10)), RMul(sum, Rat(3, 10)))))
        Smoothed(weightPrev, weightNext) ==
            [timestamp |-> smoothed[i].timestamp,
             cropOptions |->
                 [current EXCEPT
                      !.x = Blend(current.x, Sum(prev.x, current.x, next.x,
                                                 weightPrev, weightNext)),
                      !.y = Blend(current.y, Sum(prev.y, current.y, next.y,
                                                 weightPrev, weightNext))]]
        Weighted(dtPrev, dtNext, totalTime) ==
            Smoothed(RSub(RInt(1), RDiv(dtPrev, totalTime)),
                     RSub(RInt(1), RDiv(dtNext, totalTime)))
        Timed(dtPrev, dtNext) ==
            Weighted(dtPrev, dtNext, RAdd(dtPrev, dtNext))
    IN  Timed(RSub(smoothed[i].timestamp, smoothed[i - 1].timestamp),
              RSub(smoothed[i + 1].timestamp, smoothed[i].timestamp))

\* Lines 830-854 for the interior point i of smoothed, whose earlier points have
\* already been smoothed in place.
SmoothedPoint(smoothed, i) ==
    LET prev == smoothed[i - 1].cropOptions
        current == smoothed[i].cropOptions
        next == smoothed[i + 1].cropOptions
        Average(p, c, n, weightPrev, weightNext) ==
            RDiv(RAdd(RAdd(RMul(p, weightPrev), c), RMul(n, weightNext)),
                 RAdd(RAdd(RInt(1), weightPrev), weightNext))
        Blend(c, average) ==
            RInt(RRound(RAdd(RMul(c, Rat(7, 10)), RMul(average, Rat(3, 10)))))
        Smoothed(weightPrev, weightNext) ==
            [timestamp |-> smoothed[i].timestamp,
             cropOptions |->
                 [current EXCEPT
                      !.x = Blend(current.x, Average(prev.x, current.x, next.x,
                                                     weightPrev, weightNext)),
                      !.y = Blend(current.y, Average(prev.y, current.y, next.y,
                                                     weightPrev, weightNext))]]
        Weighted(dtPrev, dtNext, totalTime) ==
            Smoothed(RSub(RInt(1), RDiv(dtPrev, totalTime)),
                     RSub(RInt(1), RDiv(dtNext, totalTime)))
        Timed(dtPrev, dtNext) ==
            Weighted(dtPrev, dtNext, RAdd(dtPrev, dtNext))
    IN  Timed(RSub(smoothed[i].timestamp, smoothed[i - 1].timestamp),
              RSub(smoothed[i + 1].timestamp, smoothed[i].timestamp))

\* The loop run through the last index, where the point takes its predecessor's crop.
RECURSIVE SmoothingThroughLast(_, _)
SmoothingThroughLast(smoothed, i) ==
    IF i > Len(smoothed) THEN smoothed
    ELSE IF i = Len(smoothed)
         THEN [smoothed EXCEPT ![i].cropOptions = smoothed[i - 1].cropOptions]
         ELSE SmoothingThroughLast([smoothed EXCEPT ![i] = SmoothedPoint(smoothed, i)],
                                   i + 1)

\* The loop of lines 823-855, from index i on.
RECURSIVE SmoothingPass(_, _)
SmoothingPass(smoothed, i) ==
    IF i >= Len(smoothed) THEN smoothed
    ELSE SmoothingPass([smoothed EXCEPT ![i] = SmoothedPoint(smoothed, i)], i + 1)

\* The loop with each point compared with its predecessor in smoothed instead of
\* the last point added.
RECURSIVE ReductionAgainstPrevious(_, _, _)
ReductionAgainstPrevious(smoothed, filtered, i) ==
    IF i > Len(smoothed) THEN filtered
    ELSE LET previous == smoothed[i - 1]
             current == smoothed[i]
             isSimilar ==
                 /\ RLt(RAbs(RSub(current.cropOptions.x, previous.cropOptions.x)), RInt(20))
                 /\ RLt(RAbs(RSub(current.cropOptions.y, previous.cropOptions.y)), RInt(10))
             isCloseInTime ==
                 RLt(RSub(current.timestamp, previous.timestamp), RInt(minTimeDiff))
         IN  IF isSimilar /\ isCloseInTime /\ i < Len(smoothed)
             THEN ReductionAgainstPrevious(smoothed, filtered, i + 1)
             ELSE ReductionAgainstPrevious(smoothed, Append(filtered, current), i + 1)

\* The loop without the exemption of the last point (i === smoothed.length - 1).
RECURSIVE ReductionDroppingLast(_, _, _)
ReductionDroppingLast(smoothed, filtered, i) ==
    IF i > Len(smoothed) THEN filtered
    ELSE LET lastAdded == filtered[Len(filtered)]
             current == smoothed[i]
             isSimilar ==
                 /\ RLt(RAbs(RSub(current.cropOptions.x, lastAdded.cropOptions.x)), RInt(20))
                 /\ RLt(RAbs(RSub(current.cropOptions.y, lastAdded.cropOptions.y)), RInt(10))
             isCloseInTime ==
                 RLt(RSub(current.timestamp, lastAdded.timestamp), RInt(minTimeDiff))
         IN  IF isSimilar /\ isCloseInTime
             THEN ReductionDroppingLast(smoothed, filtered, i + 1)
             ELSE ReductionDroppingLast(smoothed, Append(filtered, current), i + 1)

\* The loop of lines 861-879: filtered so far, the next index i.
RECURSIVE ReductionPass(_, _, _)
ReductionPass(smoothed, filtered, i) ==
    IF i > Len(smoothed) THEN filtered
    ELSE LET lastAdded == filtered[Len(filtered)]
             current == smoothed[i]
             isSimilar ==
                 /\ RLt(RAbs(RSub(current.cropOptions.x, lastAdded.cropOptions.x)), RInt(20))
                 /\ RLt(RAbs(RSub(current.cropOptions.y, lastAdded.cropOptions.y)), RInt(10))
             isCloseInTime ==
                 RLt(RSub(current.timestamp, lastAdded.timestamp), RInt(minTimeDiff))
         IN  IF isSimilar /\ isCloseInTime /\ i < Len(smoothed)
             THEN ReductionPass(smoothed, filtered, i + 1)
             ELSE ReductionPass(smoothed, Append(filtered, current), i + 1)

smoothCropTimeline(cropTimelinePoints) ==
    IF Len(cropTimelinePoints) <= 2 THEN cropTimelinePoints
    ELSE LET Reduced(smoothed) == ReductionPass(smoothed, <<smoothed[1]>>, 2)
         IN  Reduced(SmoothingPass(cropTimelinePoints, 2))

allCropPointsEqual(cropTimelinePoints) ==
    \/ Len(cropTimelinePoints) <= 1
    \/ \A k \in 1..Len(cropTimelinePoints) :
           LET crop == cropTimelinePoints[k].cropOptions
               firstCrop == cropTimelinePoints[1].cropOptions
           IN  /\ RLe(RAbs(RSub(crop.x, firstCrop.x)), RInt(margin))
               /\ RLe(RAbs(RSub(crop.y, firstCrop.y)), RInt(margin))

(***************************************************************************)
(* Segment planner: the segment loop of processVideoWithDynamicCropping    *)
(***************************************************************************)
\* Lines 650-656.
CropTimelinePoints(faceTimeline, info) ==
    [k \in 1..Len(faceTimeline) |->
        [timestamp |-> faceTimeline[k].timestamp,
         cropOptions |-> calculateVerticalCrop(faceTimeline[k].faces, info)]]

\* Lines 702-719, from keyframe i on: a keyframe's segment lasts to the next
\* keyframe (the last one's to the duration); one under 0.5 s is skipped.
RECURSIVE PlanSegments(_, _, _)
PlanSegments(smoothedCropTimeline, duration, i) ==
    IF i > Len(smoothedCropTimeline) THEN <<>>
    ELSE LET current == smoothedCropTimeline[i]
             segmentDuration ==
                 IF i < Len(smoothedCropTimeline)
                 THEN RSub(smoothedCropTimeline[i + 1].timestamp, current.timestamp)
                 ELSE RSub(duration, current.timestamp)
             rest == PlanSegments(smoothedCropTimeline, duration, i + 1)
         IN  IF RLt(segmentDuration, Half) THEN rest
             ELSE <<[start |-> current.timestamp,
                     duration |-> segmentDuration,
                     cropX |-> current.cropOptions.x,
                     cropY |-> current.cropOptions.y]>> \o rest

\* Lines 694-696 and 729-738: the crop filter of a segment's render. Its width and
\* height are computed from the video's height alone.
SegmentCropFilter(segment, info) ==
    [w |-> RFloor(RMul(RInt(info.height), aspectRatio)),
     h |-> info.height,
     x |-> segment.cropX,
     y |-> segment.cropY]

(***************************************************************************)
(* State                                                                   *)
(***************************************************************************)
VARIABLES
    options,                \* this.options: targetWidth, targetHeight, detectFaces
    videoInfo,              \* what getVideoInfo resolved: width, height, duration
    pc,                     \* where the conversion stands
    sceneChangeTimestamps,  \* what detectSceneChanges resolved with
    sceneOutcome,           \* and the handler that resolved it
    timestamps,             \* the sample list of detectFacesAcrossTimeline
    detected,               \* the points pushed to the faceTimeline array, as detected
    faceTimeline,           \* convertVideo's faceTimeline: undefined, or the points
    detectorThrew,          \* the detector threw on some frame (detectFacesInFrame's catch)
    detectionFailure,       \* what made detectFacesAcrossTimeline return []
    tempFiles,              \* the temporary files on disk
    unlinkFailed,           \* the files whose deletion threw
    segments,               \* the segment list of processVideoWithDynamicCropping
    segmentState,           \* each segment render: running, ended or failed
    staticRenders,          \* the calls of processVideoForMobile, in order
    fallbackCause,          \* what made the outer catch (line 803) run
    finished,               \* the segment renders that ended, in the order they ended
    listContent,            \* the clips listed in the concat list file
    result,                 \* convertVideo's promise: pending, resolved or rejected
    cropFaces,              \* the faces handed to calculateVerticalCrop on its own
    cropOptions,            \* and the rectangle it returned
    segmentFilter,          \* and the crop filter of a segment render at that position
    keyframes,              \* the points handed to smoothCropTimeline on its own
    keyframesSmoothed,      \* its array smoothed after the smoothing loop
    keyframesFiltered,      \* and the array filtered it returned
    modelsLoaded,           \* the module's modelsLoaded flag
    modelFiles,             \* the model files are in the models directory
    loadCalls,              \* where each call of loadFaceDetectionModels stands
    loadsStarted            \* how many times loadFromDisk has been called

configVars ==
    <<options, videoInfo>>

samplerVars ==
    <<sceneChangeTimestamps, sceneOutcome, timestamps>>

detectVars ==
    <<detected, faceTimeline, detectorThrew, detectionFailure>>

renderVars ==
    <<segments, segmentState, staticRenders, fallbackCause>>

cropVars ==
    <<cropFaces, cropOptions, segmentFilter>>

concatVars ==
    <<finished, listContent>>

fileVars ==
    <<tempFiles, unlinkFailed>>

smootherVars ==
    <<keyframes, keyframesSmoothed, keyframesFiltered>>

modelVars ==
    <<modelsLoaded, modelFiles, loadCalls, loadsStarted>>

vars ==
    <<options, videoInfo, pc, sceneChangeTimestamps, sceneOutcome, timestamps, detected,
      faceTimeline, detectorThrew, detectionFailure, tempFiles, unlinkFailed, segments,
      segmentState, staticRenders, fallbackCause, finished, listContent, result,
      cropFaces, cropOptions, segmentFilter,
      keyframes, keyframesSmoothed, keyframesFiltered, modelsLoaded, modelFiles,
      loadCalls, loadsStarted>>

NoCrop ==
    [width |-> 0, height |-> 0, x |-> RInt(0), y |-> RInt(0)]

\* The state of a converter that has not started anything.
Idle ==
    /\ sceneChangeTimestamps = <<>>
    /\ sceneOutcome = "pending"
    /\ timestamps = <<>>
    /\ detected = <<>>
    /\ faceTimeline = [defined |-> FALSE, points |-> <<>>]
    /\ detectorThrew = FALSE
    /\ detectionFailure = "none"
    /\ tempFiles = {}
    /\ unlinkFailed = {}
    /\ segments = <<>>
    /\ segmentState = <<>>
    /\ staticRenders = <<>>
    /\ fallbackCause = "none"
    /\ finished = <<>>
    /\ listContent = <<>>
    /\ result = "pending"
    /\ cropFaces = <<>>
    /\ cropOptions = NoCrop
    /\ segmentFilter = [w |-> 0, h |-> 0, x |-> RInt(0), y |-> RInt(0)]
    /\ keyframes = <<>>
    /\ keyframesSmoothed = <<>>
    /\ keyframesFiltered = <<>>
    /\ modelsLoaded = FALSE
    /\ modelFiles = FALSE
    /\ loadCalls = <<>>
    /\ loadsStarted = 0

(***************************************************************************)
(* Inputs                                                                  *)
(***************************************************************************)
\* Durations 0, 0.25, ..., MaxQuarterSeconds / 4 seconds.
MaxQuarterSeconds ==
    200

\* The largest number of scene changes ffmpeg reports.
MaxScenes ==
    53

LongDurations ==
    {RInt(100), RInt(160)}

SamplerDurations ==
    {Rat(k, 4) : k \in 0..MaxQuarterSeconds} \cup LongDurations

SceneFirsts ==
    {RInt(3), Rat(13, 2)}

SceneGaps ==
    {RInt(3), RInt(35)}

\* count pts_time values first, first + gap, ..., in output order.
Progression(first, gap, count) ==
    [k \in 1..count |-> RAdd(first, RMul(RInt(k - 1), gap))]

\* The scene-change candidates ffmpeg can report for a video of this duration:
\* none, or a progression of timestamps within the video.
SamplerSceneOutputs(duration) ==
    {Progression(c[1], c[2], c[3]) :
         c \in {c \in SceneFirsts \X SceneGaps \X (0..MaxScenes) :
                    c[3] = 0 \/ RLe(RAdd(c[1], RMul(RInt(c[3] - 1), c[2])), duration)}}

\* Frame sizes 1 x 1 to MaxVideoSide x MaxVideoSide for calculateVerticalCrop on its own.
MaxVideoSide ==
    6

\* Face boxes with x and y in -2..MaxFaceCoord: inside, across and outside the frame.
MaxFaceCoord ==
    6

MaxFaceSize ==
    3

TargetSizes ==
    {<<1080, 1920>>, <<1080, 1080>>}

FaceBoxes ==
    [x : -2..MaxFaceCoord, y : -2..MaxFaceCoord,
     width : 1..MaxFaceSize, height : 1..MaxFaceSize]

PairBoxes ==
    [x : {-2, 1, MaxFaceCoord}, y : {0, MaxFaceCoord},
     width : {1, MaxFaceSize}, height : {1, MaxFaceSize}]

\* No face, one face, or two faces.
CropFaceLists ==
    {<<>>} \cup {<<f>> : f \in FaceBoxes} \cup {<<f, g>> : f \in PairBoxes, g \in PairBoxes}

\* The conversions of the whole pipeline: a 64 x 16 video that lasts 8 s, or whose
\* duration ffprobe does not report (getVideoInfo then resolves duration 0, line 210).
PipelineDurations ==
    {RInt(0), RInt(8)}

PipelineSceneOutputs ==
    {<<>>}

FaceA ==
    [x |-> 2, y |-> 4, width |-> 4, height |-> 4]

FaceB ==
    [x |-> 50, y |-> 6, width |-> 4, height |-> 4]

FaceC ==
    [x |-> 12, y |-> 4, width |-> 4, height |-> 4]

\* What detectFacesInFrame finds in a frame.
PipelineFaceLists ==
    {<<>>, <<FaceA>>, <<FaceB>>, <<FaceC>>}

\* The most calls of loadFaceDetectionModels in one process.
MaxLoadCalls ==
    3

\* The longest crop timeline handed to smoothCropTimeline on its own.
MaxKeyframes ==
    4

KeyframeGaps ==
    {RInt(2), RInt(6)}

\* Crops under and over the 20 px and 10 px of the reduction apart.
KeyframeCrops ==
    {[width |-> 9, height |-> 16, x |-> RInt(c[1]), y |-> RInt(c[2])] :
         c \in {<<0, 0>>, <<15, 0>>, <<25, 0>>, <<15, 12>>}}

\* The timestamps 0.5, 0.5 + gaps[1], 0.5 + gaps[1] + gaps[2], ...
RECURSIVE TimestampsFrom(_, _)
TimestampsFrom(first, gaps) ==
    IF gaps = <<>> THEN <<first>>
    ELSE <<first>> \o TimestampsFrom(RAdd(first, Head(gaps)), Tail(gaps))

\* The crop timeline with these timestamps and crops.
KeyframesOf(times, crops) ==
    [k \in 1..Len(crops) |-> [timestamp |-> times[k], cropOptions |-> crops[k]]]

\* The widest and highest margin between the crop window and the frame.
MaxCropLimit ==
    25

\* The longest timeline handed to postProcessFaceTimeline on its own.
MaxTimelinePoints ==
    4

\* Timelines of 1..MaxTimelinePoints points at 0.5, 2, 4.5, 8, ... seconds, each with
\* no face, one face or two faces.
GapFillerFaceLists ==
    PipelineFaceLists \cup {<<FaceB, FaceA>>}

GapFillerTimelines ==
    UNION {[1..n -> GapFillerFaceLists] : n \in 1..MaxTimelinePoints}

TimelineOf(faceLists) ==
    [k \in 1..Len(faceLists) |-> [timestamp |-> Rat(k * k, 2), faces |-> faceLists[k]]]

DefaultOptions ==
    [targetWidth |-> 1080, targetHeight |-> 1920, detectFaces |-> TRUE]

(***************************************************************************)
(* convertVideo and detectFacesAcrossTimeline                              *)
(***************************************************************************)
\* convertVideo throws before any processing: the input file is missing (line 149)
\* or ffprobe fails (line 153).
RejectEarly ==
    /\ pc = "start"
    /\ result' = "rejected"
    /\ pc' = "done"
    /\ UNCHANGED <<configVars, smootherVars, modelVars, concatVars, samplerVars, detectVars,
                   renderVars, cropVars, fileVars>>

\* Lines 148-165: with detectFaces the timeline is detected first, without it
\* faceTimeline stays undefined.
StartConversion ==
    /\ pc = "start"
    /\ pc' = IF options.detectFaces THEN "loadModels" ELSE "process"
    /\ UNCHANGED <<configVars, smootherVars, modelVars, concatVars, samplerVars, detectVars,
                   renderVars, cropVars, fileVars, result>>

\* The catch of detectFacesAcrossTimeline returns the points collected so far.
DetectionKeepsPartialTimeline(cause) ==
    /\ faceTimeline' = [defined |-> TRUE, points |-> detected]
    /\ detectionFailure' = cause
    /\ pc' = "process"

\* The catch of detectFacesAcrossTimeline (lines 327-330): it returns [], which
\* convertVideo stores and hands to processVideoWithDynamicCropping.
DetectionFails(cause) ==
    /\ faceTimeline' = [defined |-> TRUE, points |-> <<>>]
    /\ detectionFailure' = cause
    /\ pc' = "process"

\* loadFaceDetectionModels resolves (line 240).
LoadModelsOk ==
    /\ pc = "loadModels"
    /\ pc' = "detectSceneChanges"
    /\ UNCHANGED <<configVars, smootherVars, modelVars, concatVars, samplerVars, detectVars,
                   renderVars, cropVars, fileVars, result>>

\* loadFaceDetectionModels rejects (lines 43-46).
LoadModelsFail ==
    /\ pc = "loadModels"
    /\ DetectionFails("modelLoad")
    /\ UNCHANGED <<configVars, smootherVars, modelVars, concatVars, samplerVars, detected,
                   detectorThrew, renderVars, cropVars, fileVars, result>>

\* ffmpeg's 'end' event in detectSceneChanges (lines 363-441).
SceneEnd(outputs) ==
    /\ pc = "detectSceneChanges"
    /\ \E rawTimestamps \in outputs :
           sceneChangeTimestamps' = SceneChangesOnEnd(rawTimestamps, videoInfo.duration)
    /\ sceneOutcome' = "end"
    /\ pc' = "sample"
    /\ UNCHANGED <<configVars, smootherVars, modelVars, concatVars, timestamps,
                   detectVars, renderVars, cropVars, fileVars, result>>

SceneDetectionEnd ==
    SceneEnd(PipelineSceneOutputs)

\* ffmpeg's 'error' event in detectSceneChanges (lines 442-445).
SceneDetectionError ==
    /\ pc = "detectSceneChanges"
    /\ sceneChangeTimestamps' = fallbackToTimeSampling(videoInfo.duration)
    /\ sceneOutcome' = "error"
    /\ pc' = "sample"
    /\ UNCHANGED <<configVars, smootherVars, modelVars, concatVars, timestamps,
                   detectVars, renderVars, cropVars, fileVars, result>>

\* Processing ffmpeg's output throws inside the 'end' handler (lines 437-440).
SceneDetectionUnprocessable ==
    /\ pc = "detectSceneChanges"
    /\ sceneChangeTimestamps' = fallbackToTimeSampling(videoInfo.duration)
    /\ sceneOutcome' = "unprocessable"
    /\ pc' = "sample"
    /\ UNCHANGED <<configVars, smootherVars, modelVars, concatVars, timestamps,
                   detectVars, renderVars, cropVars, fileVars, result>>

\* Steps 2-4 of detectFacesAcrossTimeline, after detectSceneChanges resolved.
BuildTimestamps ==
    /\ pc = "sample"
    /\ timestamps' = SampleTimestamps(sceneChangeTimestamps, videoInfo.duration)
    /\ pc' = "extractFrame"
    /\ UNCHANGED <<configVars, smootherVars, modelVars, concatVars, sceneChangeTimestamps,
                   sceneOutcome, detectVars, renderVars, cropVars, fileVars, result>>

FrameFile(i) ==
    <<"frame", i>>

SegmentFile(i) ==
    <<"segment", i>>

ListFile ==
    <<"list", 0>>

\* The frame at timestamps[i] is extracted (lines 296-303, 'end').
ExtractFrameOk ==
    /\ pc = "extractFrame"
    /\ tempFiles' = tempFiles \cup {FrameFile(Len(detected) + 1)}
    /\ UNCHANGED unlinkFailed
    /\ pc' = "detectFaces"
    /\ UNCHANGED <<configVars, smootherVars, modelVars, concatVars, samplerVars, detectVars,
                   renderVars, cropVars, result>>

\* The extraction fails (line 301): the whole detection returns [].
ExtractFrameFails ==
    /\ pc = "extractFrame"
    /\ DetectionFails("frameExtraction")
    /\ UNCHANGED <<configVars, smootherVars, modelVars, concatVars, samplerVars, detected,
                   detectorThrew, renderVars, cropVars, fileVars, result>>

\* Lines 306-326 once detectFacesInFrame resolved with faces and the frame file was
\* deleted: the point is pushed, and after the last frame the timeline is
\* post-processed and returned.
FramePushed(faces) ==
    LET i == Len(detected) + 1
        Returned(processed) ==
            /\ faceTimeline' = [defined |-> TRUE, points |-> processed]
            /\ pc' = "process"
        Pushed(pushed) ==
            /\ detected' = pushed
            /\ IF i < Len(timestamps)
               THEN /\ pc' = "extractFrame"
                    /\ UNCHANGED faceTimeline
               ELSE Returned(postProcessFaceTimeline(pushed))
    IN  /\ tempFiles' = tempFiles \ {FrameFile(i)}
        /\ UNCHANGED unlinkFailed
        /\ Pushed(Append(detected, [timestamp |-> timestamps[i], faces |-> faces]))

\* detectFacesInFrame returns the faces it found (lines 560-625).
FrameDetected ==
    /\ pc = "detectFaces"
    /\ \E faces \in PipelineFaceLists : FramePushed(faces)
    /\ UNCHANGED <<configVars, smootherVars, modelVars, concatVars, samplerVars,
                   detectorThrew, detectionFailure, renderVars, cropVars, result>>

\* The detector throws; detectFacesInFrame catches it and returns [] (lines 626-629).
FrameDetectorThrows ==
    /\ pc = "detectFaces"
    /\ FramePushed(<<>>)
    /\ detectorThrew' = TRUE
    /\ UNCHANGED <<configVars, smootherVars, modelVars, concatVars, samplerVars,
                   detectionFailure, renderVars, cropVars, result>>

\* fs.unlinkSync(framePath) throws (line 315): the frame file stays, and the whole
\* detection returns [].
FrameUnlinkFails ==
    /\ pc = "detectFaces"
    /\ \E faces \in PipelineFaceLists :
           detected' = Append(detected, [timestamp |-> timestamps[Len(detected) + 1],
                                         faces |-> faces])
    /\ unlinkFailed' = unlinkFailed \cup {FrameFile(Len(detected) + 1)}
    /\ UNCHANGED tempFiles
    /\ DetectionFails("unlink")
    /\ UNCHANGED <<configVars, smootherVars, modelVars, concatVars, samplerVars,
                   detectorThrew, renderVars, cropVars, result>>

(***************************************************************************)
(* processVideoWithDynamicCropping and processVideoForMobile               *)
(***************************************************************************)
\* The faces the outer catch hands to processVideoForMobile (line 806): undefined.
FallbackFacesFirstPoint(points) ==
    points[1].faces

FallbackFaces(points) ==
    <<>>

\* processVideoForMobile(inputPath, outputPath, faces, videoInfo) starts its render.
StartStaticRender(faces, cause) ==
    /\ staticRenders' = Append(staticRenders,
                               [faces |-> faces,
                                crop |-> calculateVerticalCrop(faces, videoInfo),
                                cause |-> cause,
                                state |-> "running"])
    /\ pc' = "staticRender"

\* The outer catch (lines 803-807) surfaces the error instead of falling back.
RethrowDynamicCropError(cause) ==
    /\ fallbackCause' = cause
    /\ staticRenders' = staticRenders
    /\ result' = "rejected"
    /\ pc' = "done"

\* The outer catch (lines 803-807): the static render of the whole video.
FallBackToStatic(cause) ==
    /\ fallbackCause' = cause
    /\ StartStaticRender(FallbackFaces(faceTimeline.points), "fallback")
    /\ UNCHANGED result

NoTimeline ==
    ~faceTimeline.defined \/ Len(faceTimeline.points) = 0

\* The test of line 659 without the call of allCropPointsEqual.
SinglePointOnly(cropTimelinePoints) ==
    Len(cropTimelinePoints) = 1

\* The test of line 659: one point, or every crop within the margin of the first.
StaticCropSuffices(cropTimelinePoints) ==
    Len(cropTimelinePoints) = 1 \/ allCropPointsEqual(cropTimelinePoints)

\* Lines 644-646: no timeline, the static render without faces.
ProcessNoTimeline ==
    /\ pc = "process"
    /\ NoTimeline
    /\ StartStaticRender(<<>>, "noTimeline")
    /\ UNCHANGED <<configVars, smootherVars, modelVars, concatVars, samplerVars,
                   detectVars, segments, segmentState, fallbackCause, cropVars, fileVars,
                   result>>

\* Lines 659-667: one point, or all crops within the margin: the static render with
\* the first point's faces.
ProcessStaticCrop ==
    /\ pc = "process"
    /\ ~NoTimeline
    /\ StaticCropSuffices(CropTimelinePoints(faceTimeline.points, videoInfo))
    /\ StartStaticRender(faceTimeline.points[1].faces, "staticCrop")
    /\ UNCHANGED <<configVars, smootherVars, modelVars, concatVars, samplerVars,
                   detectVars, segments, segmentState, fallbackCause, cropVars, fileVars,
                   result>>

\* Lines 759-767 with the paths in the order the renders ended.
ListedInFinishOrder(order, count) ==
    [k \in 1..count |-> SegmentFile(order[k])]

\* Lines 759-767: Promise.all resolves with the path of every segment at the
\* position of its promise in segmentationScript, which is the position of the
\* segment in segments, whatever order the renders ended in; the list file holds
\* one line for each path, in that order.
ListedPaths(order, count) ==
    [k \in 1..count |-> SegmentFile(k)]

\* Lines 675-755: the timeline is smoothed, the segments are planned and every
\* segment render is started. Promise.all of no segment resolves at once, and the
\* list file is written and the concatenation started (lines 759-788).
ProcessDispatchSegments ==
    /\ pc = "process"
    /\ ~NoTimeline
    /\ LET Dispatched(planned) ==
               /\ segments' = planned
               /\ segmentState' = [k \in 1..Len(planned) |-> "running"]
               /\ pc' = IF Len(planned) = 0 THEN "concat" ELSE "segments"
               /\ tempFiles' = IF Len(planned) = 0 THEN tempFiles \cup {ListFile}
                                ELSE tempFiles
               /\ listContent' = IF Len(planned) = 0 THEN ListedPaths(finished, 0)
                                  ELSE listContent
               /\ UNCHANGED <<unlinkFailed, finished>>
           Cropped(cropTimelinePoints) ==
               /\ ~StaticCropSuffices(cropTimelinePoints)
               /\ Dispatched(PlanSegments(smoothCropTimeline(cropTimelinePoints),
                                          videoInfo.duration, 1))
       IN  Cropped(CropTimelinePoints(faceTimeline.points, videoInfo))
    /\ UNCHANGED <<configVars, smootherVars, modelVars, samplerVars, detectVars,
                   staticRenders, fallbackCause, cropVars, result>>

\* Something before the dispatch throws inside the try block (the mkdirSync of
\* line 690): the outer catch runs.
SegmentationThrows ==
    /\ pc = "process"
    /\ ~NoTimeline
    /\ ~StaticCropSuffices(CropTimelinePoints(faceTimeline.points, videoInfo))
    /\ FallBackToStatic("segmentation")
    /\ UNCHANGED <<configVars, smootherVars, modelVars, concatVars, samplerVars,
                   detectVars, segments, segmentState, cropVars, fileVars>>

OthersEnded(i) ==
    \A j \in 1..Len(segmentState) : j # i => segmentState[j] = "ended"

\* A segment render ends (lines 745-748). When it is the last one, Promise.all
\* resolves with the paths, the list file is written from them and the
\* concatenation is started (lines 759-788).
SegmentEnds(i) ==
    /\ segmentState[i] = "running"
    /\ segmentState' = [segmentState EXCEPT ![i] = "ended"]
    /\ finished' = Append(finished, i)
    /\ IF pc = "segments" /\ OthersEnded(i)
       THEN /\ tempFiles' = tempFiles \cup {SegmentFile(i), ListFile}
            /\ listContent' = ListedPaths(Append(finished, i), Len(segments))
            /\ pc' = "concat"
       ELSE /\ tempFiles' = tempFiles \cup {SegmentFile(i)}
            /\ UNCHANGED <<pc, listContent>>
    /\ UNCHANGED unlinkFailed
    /\ UNCHANGED <<configVars, smootherVars, modelVars, samplerVars, detectVars, segments,
                   staticRenders, fallbackCause, cropVars, result>>

\* The last segment render ends and fs.writeFileSync of the list file throws
\* (line 767): the outer catch runs.
ListFileWriteFails(i) ==
    /\ segmentState[i] = "running"
    /\ pc = "segments"
    /\ OthersEnded(i)
    /\ segmentState' = [segmentState EXCEPT ![i] = "ended"]
    /\ tempFiles' = tempFiles \cup {SegmentFile(i)}
    /\ finished' = Append(finished, i)
    /\ UNCHANGED <<unlinkFailed, listContent>>
    /\ FallBackToStatic("listFile")
    /\ UNCHANGED <<configVars, smootherVars, modelVars, samplerVars, detectVars, segments,
                   cropVars>>

\* A segment render fails (lines 749-752). The first failure rejects Promise.all,
\* and the outer catch runs while the other renders go on.
SegmentFails(i) ==
    /\ segmentState[i] = "running"
    /\ segmentState' = [segmentState EXCEPT ![i] = "failed"]
    /\ IF pc = "segments"
       THEN FallBackToStatic("segment")
       ELSE UNCHANGED <<pc, staticRenders, fallbackCause, result>>
    /\ UNCHANGED <<configVars, smootherVars, modelVars, concatVars, samplerVars,
                   detectVars, segments, cropVars, fileVars>>

ClipFiles ==
    {SegmentFile(k) : k \in 1..Len(segments)} \cup {ListFile}

\* The concatenation ends (lines 779-798): the clips and the list file are deleted,
\* a failing deletion is ignored, and the conversion resolves.
ConcatEnds ==
    /\ pc = "concat"
    /\ \E undeleted \in SUBSET (tempFiles \cap ClipFiles) :
           /\ tempFiles' = (tempFiles \ ClipFiles) \cup undeleted
           /\ unlinkFailed' = unlinkFailed \cup undeleted
    /\ result' = "resolved"
    /\ pc' = "done"
    /\ UNCHANGED <<configVars, smootherVars, modelVars, concatVars, samplerVars, detectVars,
                   renderVars, cropVars>>

\* The concatenation fails (lines 783-786): the outer catch runs.
ConcatFails ==
    /\ pc = "concat"
    /\ FallBackToStatic("concat")
    /\ UNCHANGED <<configVars, smootherVars, modelVars, concatVars, samplerVars,
                   detectVars, segments, segmentState, cropVars, fileVars>>

\* Line 181: the faces field of the result convertVideo resolves with (lines
\* 183-187) is the faces of the first point of the face timeline, or undefined,
\* written here as the empty list, when there is no timeline or it has no point.
firstFaces ==
    IF faceTimeline.defined /\ Len(faceTimeline.points) > 0
    THEN faceTimeline.points[1].faces
    ELSE <<>>

LastStaticRender(state) ==
    [staticRenders EXCEPT ![Len(staticRenders)].state = state]

\* The static render ends (lines 974-977): convertVideo resolves.
StaticRenderEnds ==
    /\ pc = "staticRender"
    /\ staticRenders' = LastStaticRender("ended")
    /\ result' = "resolved"
    /\ pc' = "done"
    /\ UNCHANGED <<configVars, smootherVars, modelVars, concatVars, samplerVars,
                   detectVars, segments, segmentState, fallbackCause, cropVars, fileVars>>

\* The static render fails (lines 978-981): convertVideo rejects.
StaticRenderFails ==
    /\ pc = "staticRender"
    /\ staticRenders' = LastStaticRender("failed")
    /\ result' = "rejected"
    /\ pc' = "done"
    /\ UNCHANGED <<configVars, smootherVars, modelVars, concatVars, samplerVars,
                   detectVars, segments, segmentState, fallbackCause, cropVars, fileVars>>

(***************************************************************************)
(* Specifications                                                          *)
(***************************************************************************)
\* One conversion, from the call of convertVideo.
Init ==
    /\ options \in {[DefaultOptions EXCEPT !.detectFaces = b] : b \in BOOLEAN}
    /\ videoInfo \in {[width |-> 64, height |-> 16, duration |-> d] :
                          d \in PipelineDurations}
    /\ pc = "start"
    /\ Idle

Next ==
    \/ RejectEarly
    \/ StartConversion
    \/ LoadModelsOk
    \/ LoadModelsFail
    \/ SceneDetectionEnd
    \/ SceneDetectionError
    \/ SceneDetectionUnprocessable
    \/ BuildTimestamps
    \/ ExtractFrameOk
    \/ ExtractFrameFails
    \/ FrameDetected
    \/ FrameDetectorThrows
    \/ FrameUnlinkFails
    \/ ProcessNoTimeline
    \/ ProcessStaticCrop
    \/ ProcessDispatchSegments
    \/ SegmentationThrows
    \/ \E i \in 1..Len(segmentState) : SegmentEnds(i)
    \/ \E i \in 1..Len(segmentState) : ListFileWriteFails(i)
    \/ \E i \in 1..Len(segmentState) : SegmentFails(i)
    \/ ConcatEnds
    \/ ConcatFails
    \/ StaticRenderEnds
    \/ StaticRenderFails

Spec ==
    Init /\ [][Next]_vars

\* The sampler alone, from the call of detectSceneChanges, for every duration.
SamplerSceneEnd ==
    SceneEnd(SamplerSceneOutputs(videoInfo.duration))

InitSampler ==
    /\ options = DefaultOptions
    /\ videoInfo \in {[width |-> 64, height |-> 16, duration |-> d] : d \in SamplerDurations}
    /\ pc = "detectSceneChanges"
    /\ Idle

NextSampler ==
    \/ SamplerSceneEnd
    \/ SceneDetectionError
    \/ SceneDetectionUnprocessable
    \/ BuildTimestamps

SpecSampler ==
    InitSampler /\ [][NextSampler]_vars

\* calculateVerticalCrop alone, on every frame size and face list of the bounds.
CalculateCrop ==
    /\ pc = "crop"
    /\ \E faces \in CropFaceLists :
           /\ cropFaces' = faces
           /\ cropOptions' = calculateVerticalCrop(faces, videoInfo)
    /\ pc' = "cropped"
    /\ UNCHANGED segmentFilter
    /\ UNCHANGED <<configVars, smootherVars, modelVars, concatVars, samplerVars, detectVars,
                   renderVars, fileVars, result>>

\* A segment that starts at a keyframe with the crop calculateVerticalCrop
\* returned (the first keyframe's crop is never smoothed) is rendered: its crop
\* filter is built (lines 694-696, 729-738).
RenderSegmentAtCrop ==
    /\ pc = "cropped"
    /\ segmentFilter' = SegmentCropFilter([cropX |-> cropOptions.x, cropY |-> cropOptions.y],
                                          videoInfo)
    /\ pc' = "segmentFilter"
    /\ UNCHANGED <<cropFaces, cropOptions>>
    /\ UNCHANGED <<configVars, smootherVars, modelVars, concatVars, samplerVars, detectVars,
                   renderVars, fileVars, result>>

InitCrop ==
    /\ options \in {[targetWidth |-> t[1], targetHeight |-> t[2], detectFaces |-> TRUE] :
                        t \in TargetSizes}
    /\ videoInfo \in [width : 1..MaxVideoSide, height : 1..MaxVideoSide,
                      duration : {RInt(0)}]
    /\ pc = "crop"
    /\ Idle

NextCrop ==
    \/ CalculateCrop
    \/ RenderSegmentAtCrop

SpecCrop ==
    InitCrop /\ [][NextCrop]_vars

\* The gap filler alone: the frame loop (lines 286-316) has collected a timeline,
\* postProcessFaceTimeline fills it (line 324), and every point is cropped
\* (lines 650-656).
TimelineCollected ==
    /\ pc = "timeline"
    /\ \E faceLists \in GapFillerTimelines :
           /\ detected' = TimelineOf(faceLists)
           /\ timestamps' = [k \in 1..Len(faceLists) |-> Rat(k * k, 2)]
    /\ pc' = "fill"
    /\ UNCHANGED <<configVars, smootherVars, modelVars, concatVars, sceneChangeTimestamps,
                   sceneOutcome, faceTimeline, detectorThrew, detectionFailure, renderVars,
                   cropVars, fileVars, result>>

FillGaps ==
    /\ pc = "fill"
    /\ faceTimeline' = [defined |-> TRUE, points |-> postProcessFaceTimeline(detected)]
    /\ pc' = "cropTimeline"
    /\ UNCHANGED <<configVars, smootherVars, modelVars, concatVars, samplerVars, detected,
                   detectorThrew, detectionFailure, renderVars, cropVars, fileVars,
                   result>>

BuildCropTimeline ==
    /\ pc = "cropTimeline"
    /\ keyframes' = CropTimelinePoints(faceTimeline.points, videoInfo)
    /\ pc' = "filled"
    /\ UNCHANGED <<configVars, keyframesSmoothed, keyframesFiltered, modelVars, concatVars,
                   samplerVars, detectVars, renderVars, cropVars, fileVars, result>>

InitGapFiller ==
    /\ options = DefaultOptions
    /\ videoInfo = [width |-> 64, height |-> 16, duration |-> RInt(40)]
    /\ pc = "timeline"
    /\ Idle

NextGapFiller ==
    \/ TimelineCollected
    \/ FillGaps
    \/ BuildCropTimeline

SpecGapFiller ==
    InitGapFiller /\ [][NextGapFiller]_vars

\* smoothCropTimeline alone: a crop timeline of 1..MaxKeyframes points, 2 s or 6 s
\* apart, has been computed (lines 650-656) and is smoothed and reduced (line 675).
CropTimelineComputed ==
    /\ pc = "keyframes"
    /\ \E n \in 1..MaxKeyframes :
           \E gaps \in [1..(n - 1) -> KeyframeGaps], crops \in [1..n -> KeyframeCrops] :
               keyframes' = KeyframesOf(TimestampsFrom(Half, gaps), crops)
    /\ pc' = "smooth"
    /\ UNCHANGED <<configVars, keyframesSmoothed, keyframesFiltered, modelVars, concatVars,
                   samplerVars, detectVars, renderVars, cropVars, fileVars, result>>

SmoothTimeline ==
    /\ pc = "smooth"
    /\ keyframesSmoothed' = IF Len(keyframes) <= 2 THEN keyframes
                            ELSE SmoothingPass(keyframes, 2)
    /\ keyframesFiltered' = smoothCropTimeline(keyframes)
    /\ pc' = "smoothed"
    /\ UNCHANGED <<configVars, keyframes, modelVars, concatVars, samplerVars, detectVars,
                   renderVars, cropVars, fileVars, result>>

InitSmoother ==
    /\ options = DefaultOptions
    /\ videoInfo = [width |-> 64, height |-> 16, duration |-> RInt(40)]
    /\ pc = "keyframes"
    /\ Idle

NextSmoother ==
    \/ CropTimelineComputed
    \/ SmoothTimeline

SpecSmoother ==
    InitSmoother /\ [][NextSmoother]_vars

(***************************************************************************)
(* loadFaceDetectionModels under concurrent conversions                    *)
(***************************************************************************)
\* The code between two awaits runs without interruption; a call is suspended at
\* the await of line 35 (the manifest, then the weights, are downloaded) or at
\* the await of line 40 (the load).
modelLoadUnchanged ==
    UNCHANGED <<configVars, pc, samplerVars, detectVars, renderVars, concatVars, cropVars,
                fileVars, smootherVars, result>>

\* A conversion reaches line 240 and calls loadFaceDetectionModels, which runs to
\* its return of line 17 or to its first await: of the download when the manifest
\* is missing (line 35), else of loadFromDisk (line 40).
LoadCalled ==
    /\ Len(loadCalls) < MaxLoadCalls
    /\ IF modelsLoaded
       THEN /\ loadCalls' = Append(loadCalls, "returned")
            /\ UNCHANGED loadsStarted
       ELSE IF modelFiles
            THEN /\ loadCalls' = Append(loadCalls, "loading")
                 /\ loadsStarted' = loadsStarted + 1
            ELSE /\ loadCalls' = Append(loadCalls, "downloadingManifest")
                 /\ UNCHANGED loadsStarted
    /\ UNCHANGED <<modelsLoaded, modelFiles>>
    /\ modelLoadUnchanged

\* The manifest has been downloaded and is written to the models directory
\* (line 71); the weights are requested.
ManifestSaved(call) ==
    /\ loadCalls[call] = "downloadingManifest"
    /\ modelFiles' = TRUE
    /\ loadCalls' = [loadCalls EXCEPT ![call] = "downloadingWeights"]
    /\ UNCHANGED <<modelsLoaded, loadsStarted>>
    /\ modelLoadUnchanged

\* The last weight file is written (line 86): the await of line 35 resolves, and
\* loadFromDisk is called and awaited (line 40).
DownloadEnds(call) ==
    /\ loadCalls[call] = "downloadingWeights"
    /\ loadCalls' = [loadCalls EXCEPT ![call] = "loading"]
    /\ loadsStarted' = loadsStarted + 1
    /\ UNCHANGED <<modelsLoaded, modelFiles>>
    /\ modelLoadUnchanged

\* A download fails (lines 89-98): loadFaceDetectionModels rejects.
DownloadFails(call) ==
    /\ loadCalls[call] \in {"downloadingManifest", "downloadingWeights"}
    /\ loadCalls' = [loadCalls EXCEPT ![call] = "threw"]
    /\ UNCHANGED <<modelsLoaded, modelFiles, loadsStarted>>
    /\ modelLoadUnchanged

\* loadFromDisk resolves: the flag is set (line 41).
LoadEnds(call) ==
    /\ loadCalls[call] = "loading"
    /\ modelsLoaded' = TRUE
    /\ loadCalls' = [loadCalls EXCEPT ![call] = "returned"]
    /\ UNCHANGED <<modelFiles, loadsStarted>>
    /\ modelLoadUnchanged

\* loadFromDisk rejects: the error is rethrown (lines 43-46).
LoadFails(call) ==
    /\ loadCalls[call] = "loading"
    /\ loadCalls' = [loadCalls EXCEPT ![call] = "threw"]
    /\ UNCHANGED <<modelsLoaded, modelFiles, loadsStarted>>
    /\ modelLoadUnchanged

\* A process that has loaded nothing and has no model file yet.
InitModels ==
    /\ options = DefaultOptions
    /\ videoInfo = [width |-> 64, height |-> 16, duration |-> RInt(8)]
    /\ pc = "loadModels"
    /\ Idle

NextModels ==
    \/ LoadCalled
    \/ \E call \in 1..Len(loadCalls) : ManifestSaved(call)
    \/ \E call \in 1..Len(loadCalls) : DownloadEnds(call)
    \/ \E call \in 1..Len(loadCalls) : DownloadFails(call)
    \/ \E call \in 1..Len(loadCalls) : LoadEnds(call)
    \/ \E call \in 1..Len(loadCalls) : LoadFails(call)

SpecModels ==
    InitModels /\ [][NextModels]_vars

(***************************************************************************)
(* Properties of calculateVerticalCrop (under SpecCrop)                    *)
(***************************************************************************)
InFrame(crop, info) ==
    /\ RLe(RInt(0), crop.x)
    /\ RLe(RInt(0), crop.y)
    /\ RLe(RAdd(crop.x, RInt(crop.width)), RInt(info.width))
    /\ RLe(RAdd(crop.y, RInt(crop.height)), RInt(info.height))

\* C1: for every frame size and every face list, with boxes partly or wholly
\* outside the frame, the rectangle calculateVerticalCrop returns has x >= 0,
\* y >= 0, x + width <= videoWidth and y + height <= videoHeight.
C1_CropInsideFrame ==
    pc = "cropped" => InFrame(cropOptions, videoInfo)

\* A single face wholly right of the frame and reaching above it has been cropped
\* in a frame wider than the window.
C1_FaceOutsideFrameCropped ==
    /\ pc = "cropped"
    /\ Len(cropFaces) = 1
    /\ cropFaces[1].x >= videoInfo.width
    /\ cropFaces[1].y < 0
    /\ videoInfo.width > cropOptions.width
    /\ RLt(RInt(0), cropOptions.x)

\* C2: the returned rectangle's width / height equals the configured
\* targetWidth / targetHeight within one pixel of rounding.
C2_CropHasTargetAspect ==
    pc = "cropped" =>
        LET target == Rat(options.targetWidth, options.targetHeight)
            width == RInt(cropOptions.width)
            height == RInt(cropOptions.height)
        IN  \/ RLt(RAbs(RSub(width, RMul(height, target))), RInt(1))
            \/ RLt(RAbs(RSub(height, RDiv(width, target))), RInt(1))

FaceInsideFrame(face, info) ==
    /\ face.x >= 0
    /\ face.y >= 0
    /\ face.x + face.width <= info.width
    /\ face.y + face.height <= info.height

FaceFitsWindow(face, crop) ==
    /\ face.width <= crop.width
    /\ face.height <= crop.height

\* C12: for a single face whose box lies inside the frame and is no wider and no
\* taller than the crop window, the returned rectangle contains the whole box:
\* crop.x <= face.x, face.x + face.width <= crop.x + crop.width, crop.y <= face.y
\* and face.y + face.height <= crop.y + crop.height.
C12_SingleFaceContained ==
    (/\ pc = "cropped"
     /\ Len(cropFaces) = 1
     /\ FaceInsideFrame(cropFaces[1], videoInfo)
     /\ FaceFitsWindow(cropFaces[1], cropOptions))
        => LET face == cropFaces[1]
           IN  /\ RLe(cropOptions.x, RInt(face.x))
               /\ RLe(RInt(face.x + face.width), RAdd(cropOptions.x, RInt(cropOptions.width)))
               /\ RLe(cropOptions.y, RInt(face.y))
               /\ RLe(RInt(face.y + face.height),
                      RAdd(cropOptions.y, RInt(cropOptions.height)))

\* C26: the crop filter of a segment's render has the width and height that
\* calculateVerticalCrop returns for the same video, whatever the video's width and
\* height, and its rectangle lies inside the frame.
C26_SegmentFilterHasCropSizeInsideFrame ==
    pc = "segmentFilter" =>
        /\ segmentFilter.w = cropOptions.width
        /\ segmentFilter.h = cropOptions.height
        /\ RLe(RInt(0), segmentFilter.x)
        /\ RLe(RInt(0), segmentFilter.y)
        /\ RLe(RAdd(segmentFilter.x, RInt(segmentFilter.w)), RInt(videoInfo.width))
        /\ RLe(RAdd(segmentFilter.y, RInt(segmentFilter.h)), RInt(videoInfo.height))

\* C25: for a single face inside the frame whose box is wider than a crop window
\* of two pixels or more, the returned x is
\* clamp(faceCenterX - cropWidth/2, 0, videoWidth - cropWidth): the window is as
\* close to centred on the face as the frame allows.
C25_WideFaceCentred ==
    (/\ pc = "cropped"
     /\ Len(cropFaces) = 1
     /\ FaceInsideFrame(cropFaces[1], videoInfo)
     /\ cropOptions.width >= 2
     /\ cropFaces[1].width > cropOptions.width)
        => cropOptions.x =
               ClampToFrame(RSub(FaceCenterX(cropFaces[1]), Rat(cropOptions.width, 2)),
                            RInt(videoInfo.width - cropOptions.width))

\* A single face narrower than the window, in the frame's right half and touching
\* its right edge, has been cropped in a frame wider than the window: the window
\* centred on the face would leave the frame.
C12_FaceAtRightEdgeCropped ==
    /\ pc = "cropped"
    /\ Len(cropFaces) = 1
    /\ FaceInsideFrame(cropFaces[1], videoInfo)
    /\ FaceFitsWindow(cropFaces[1], cropOptions)
    /\ cropFaces[1].width < cropOptions.width
    /\ cropFaces[1].x + cropFaces[1].width = videoInfo.width
    /\ videoInfo.width > cropOptions.width + 1
    /\ cropOptions.x = RInt(videoInfo.width - cropOptions.width)

(***************************************************************************)
(* Properties of the sampler (under SpecSampler)                           *)
(***************************************************************************)
SceneDetectionFellBack ==
    sceneOutcome \in {"error", "unprocessable"}

\* 0.5, then 15, 30, ... for as long as the timestamp is more than 5 s before the end.
UniformSamples(duration) ==
    LET count == Cardinality({k \in 1..(RFloor(duration) \div 15 + 1) :
                                  RLt(RInt(15 * k), RSub(duration, RInt(5)))})
    IN  <<Half>> \o [k \in 1..count |-> RInt(15 * k)]

\* C11 (as claimed): when ffmpeg's scene detection errors or its output cannot be
\* processed, detectSceneChanges does not reject and resolves with 0.5, then one
\* timestamp every 15 s, then the end anchor duration - 2.
C11_FallbackEndsWithEndAnchor ==
    SceneDetectionFellBack =>
        /\ detectionFailure = "none"
        /\ sceneChangeTimestamps =
               Append(UniformSamples(videoInfo.duration), RSub(videoInfo.duration, RInt(2)))

\* C11 (as amended): when ffmpeg's scene detection errors or its output cannot be
\* processed, detectSceneChanges does not reject and resolves with 0.5, then one
\* timestamp every 15 s, then, for a duration above 5.5 s only, the end anchor
\* duration - 2.
C11_FallbackIsUniformSampling ==
    SceneDetectionFellBack =>
        /\ pc = "sample" => detectionFailure = "none"
        /\ sceneChangeTimestamps =
               IF RLt(Rat(11, 2), videoInfo.duration)
               THEN Append(UniformSamples(videoInfo.duration),
                           RSub(videoInfo.duration, RInt(2)))
               ELSE UniformSamples(videoInfo.duration)

\* The output of a video longer than 35 s could not be processed, and the list
\* resolved has 0.5, 15, 30 and the end anchor.
C11_UnprocessableOutputFellBack ==
    /\ sceneOutcome = "unprocessable"
    /\ pc = "sample"
    /\ RLt(RInt(35), videoInfo.duration)
    /\ Len(sceneChangeTimestamps) >= 4
    /\ sceneChangeTimestamps[Len(sceneChangeTimestamps)] = RSub(videoInfo.duration, RInt(2))

\* Steps 2-4 of detectFacesAcrossTimeline have built the sample list.
SampleListBuilt ==
    pc = "extractFrame"

EndAnchor ==
    RMax(Half, RSub(videoInfo.duration, RInt(2)))

\* C7 (as claimed): the final sample list contains 0.5 and max(0.5, duration - 2),
\* also after down-sampling.
C7_AnchorsKept ==
    SampleListBuilt =>
        /\ Includes(timestamps, Half)
        /\ Includes(timestamps, EndAnchor)

\* C7 (as amended): the final sample list contains 0.5 and the largest timestamp
\* of the combined set, and it contains max(0.5, duration - 2) whenever the
\* combined set has at most maxSamples timestamps.
C7_FirstAndLastKept ==
    SampleListBuilt =>
        LET combined == CombinedTimestamps(sceneChangeTimestamps, videoInfo.duration)
        IN  /\ Includes(timestamps, Half)
            /\ Includes(timestamps, combined[Len(combined)])
            /\ RLe(EndAnchor, combined[Len(combined)])
            /\ Len(combined) <= maxSamples => Includes(timestamps, EndAnchor)

\* A combined set of more than maxSamples timestamps has been down-sampled, and a
\* scene change lies after duration - 2.
C7_DownSampledPastEndAnchor ==
    /\ SampleListBuilt
    /\ Len(CombinedTimestamps(sceneChangeTimestamps, videoInfo.duration)) > maxSamples
    /\ RLt(EndAnchor, timestamps[Len(timestamps)])

\* C8: the final sample list never has more than 25 timestamps, whatever the
\* number of timestamps in the combined set.
C8_AtMostMaxSamples ==
    SampleListBuilt => Len(timestamps) <= 25

\* C9: the final sample list has at least 5 timestamps for every duration > 0.
C9_AtLeastMinSamples ==
    (SampleListBuilt /\ RLt(RInt(0), videoInfo.duration)) => Len(timestamps) >= 5

(***************************************************************************)
(* Properties of a conversion (under Spec)                                 *)
(***************************************************************************)
SegmentEnd(segment) ==
    RAdd(segment.start, segment.duration)

\* C3: the planned segments partition [0, duration): the first starts at 0, each
\* ends where the next one starts, and the last ends at the duration (stated for
\* the videos whose duration ffprobe reports).
C3_SegmentsPartitionVideo ==
    (segments # <<>> /\ RLt(RInt(0), videoInfo.duration)) =>
        /\ segments[1].start = RInt(0)
        /\ \A k \in 1..(Len(segments) - 1) : SegmentEnd(segments[k]) = segments[k + 1].start
        /\ SegmentEnd(segments[Len(segments)]) = videoInfo.duration

\* The rectangle of lines 1012-1013: centred in the frame.
IsCenterCrop(crop, info) ==
    /\ crop.x = RInt((info.width - crop.width) \div 2)
    /\ crop.y = RInt((info.height - crop.height) \div 2)

\* C4 (as claimed): when segmentation, a segment render or the concatenation fails,
\* the fallback render's rectangle is the one computed from the first timeline
\* point's faces.
C4_FallbackUsesFirstPointFaces ==
    fallbackCause # "none" =>
        /\ Len(staticRenders) = 1
        /\ staticRenders[1].cause = "fallback"
        /\ staticRenders[1].crop =
               calculateVerticalCrop(faceTimeline.points[1].faces, videoInfo)

\* C4 (as amended): when segmentation, a segment render or the concatenation fails,
\* the whole video is rendered by the single static-crop path without faces, with
\* the rectangle centred in the frame.
C4_FallbackUsesCenterCrop ==
    fallbackCause # "none" =>
        /\ Len(staticRenders) = 1
        /\ staticRenders[1].cause = "fallback"
        /\ staticRenders[1].faces = <<>>
        /\ IsCenterCrop(staticRenders[1].crop, videoInfo)

\* The concatenation failed on a timeline whose first point has a face, and the
\* fallback render has ended.
C4_FallbackAfterConcatFailure ==
    /\ fallbackCause = "concat"
    /\ faceTimeline.points[1].faces # <<>>
    /\ Len(staticRenders) = 1
    /\ staticRenders[1].state = "ended"

\* C5: a failing segment render or concatenation does not by itself fail the
\* conversion: exactly one static render of the whole video is run, the conversion
\* resolves if that render ends and rejects only if it fails.
C5_FailureFallsBackOnce ==
    fallbackCause \in {"segment", "concat"} =>
        /\ Len(staticRenders) = 1
        /\ staticRenders[1].cause = "fallback"
        /\ (result = "resolved") <=> (staticRenders[1].state = "ended")
        /\ (result = "rejected") <=> (staticRenders[1].state = "failed")

\* A segment render failed while another one was running, and the conversion
\* resolved through the fallback render.
C5_ResolvedAfterSegmentFailure ==
    /\ fallbackCause = "segment"
    /\ result = "resolved"
    /\ \E i \in 1..Len(segmentState) : segmentState[i] = "failed"
    /\ \E i \in 1..Len(segmentState) : segmentState[i] # "failed"

\* convertVideo has called processVideoWithDynamicCropping and the call is past
\* its choice between the static and the dynamic path.
Processed ==
    \/ pc \in {"segments", "concat", "staticRender"}
    \/ /\ pc = "done"
       /\ ~(result = "rejected" /\ staticRenders = <<>> /\ fallbackCause = "none")

OneCenterRenderNoSegments ==
    /\ segments = <<>>
    /\ Len(staticRenders) = 1
    /\ staticRenders[1].faces = <<>>
    /\ IsCenterCrop(staticRenders[1].crop, videoInfo)
    /\ result = "rejected" => staticRenders[1].state = "failed"

\* C6 (as claimed): with face detection disabled, or after a failing model load or
\* frame extraction or a throwing detector, the conversion goes through exactly
\* one static render with the centre crop, and no segment render is dispatched.
C6_DetectorThrowGivesStaticCenter ==
    (Processed /\ (~options.detectFaces \/ detectionFailure # "none" \/ detectorThrew))
        => OneCenterRenderNoSegments

\* C6 (as amended): with face detection disabled, or after detectFacesAcrossTimeline
\* returned [] (the model load, a frame extraction or the deletion of a frame file
\* failed), the conversion goes through exactly one static render with the centre
\* crop, and no segment render is dispatched.
C6_NoTimelineGivesStaticCenter ==
    (Processed /\ (~options.detectFaces \/ detectionFailure # "none"))
        => /\ OneCenterRenderNoSegments
           /\ staticRenders[1].cause = "noTimeline"

\* A frame extraction failed after frames with different faces had been analysed,
\* and the conversion resolved.
C6_ResolvedAfterExtractionFailure ==
    /\ detectionFailure = "frameExtraction"
    /\ Len(detected) >= 2
    /\ detected[1].faces # detected[2].faces
    /\ detected[1].faces # <<>>
    /\ detected[2].faces # <<>>
    /\ result = "resolved"

\* C10: the timestamps of the face timeline detectFacesAcrossTimeline returns are
\* strictly increasing and lie within [0, duration].
C10_TimelineOrderedWithinDuration ==
    faceTimeline.defined =>
        LET points == faceTimeline.points
        IN  /\ \A k \in 1..(Len(points) - 1) :
                   RLt(points[k].timestamp, points[k + 1].timestamp)
            /\ \A k \in 1..Len(points) :
                   /\ RLe(RInt(0), points[k].timestamp)
                   /\ RLe(points[k].timestamp, videoInfo.duration)

(***************************************************************************)
(* Properties of the static-crop shortcut (under Spec)                     *)
(***************************************************************************)
\* Every point's crop x and y are within 5 px of the first point's.
WithinFivePixelsOfFirst(points) ==
    \A k \in 1..Len(points) :
        /\ RLe(RAbs(RSub(points[k].cropOptions.x, points[1].cropOptions.x)), RInt(5))
        /\ RLe(RAbs(RSub(points[k].cropOptions.y, points[1].cropOptions.y)), RInt(5))

OnePointOrWithinFivePixels(points) ==
    Len(points) = 1 \/ WithinFivePixelsOfFirst(points)

\* The one static render of lines 659-667, with no segment and no concatenation.
StaticCropPathOnly ==
    /\ segments = <<>>
    /\ Len(staticRenders) = 1
    /\ staticRenders[1].cause = "staticCrop"
    /\ pc \in {"staticRender", "done"}

\* processVideoWithDynamicCropping got a timeline with points and nothing threw.
CroppedWithoutFailure ==
    Processed /\ ~NoTimeline /\ fallbackCause = "none"

\* C15 (as claimed): if the reduced keyframe sequence, the output of smoothing and
\* reduction, has exactly one point or every point within 5 px of the first, the
\* video is rendered by the single static-crop path, and no segment render or
\* concatenation is dispatched.
C15_StaticWhenReducedSequenceStatic ==
    (/\ CroppedWithoutFailure
     /\ OnePointOrWithinFivePixels(
            smoothCropTimeline(CropTimelinePoints(faceTimeline.points, videoInfo))))
        => StaticCropPathOnly

\* C15 (as amended): if the crop timeline before smoothing and reduction has exactly
\* one point or every point within 5 px of the first, the video is rendered by the
\* single static-crop path, and no segment render or concatenation is dispatched.
C15_StaticWhenCropTimelineStatic ==
    (/\ CroppedWithoutFailure
     /\ OnePointOrWithinFivePixels(CropTimelinePoints(faceTimeline.points, videoInfo)))
        => StaticCropPathOnly

\* A timeline of several points with the same face at each has been rendered by
\* the static path, and the conversion resolved.
C15_SameFaceEverywhereStatic ==
    /\ CroppedWithoutFailure
    /\ Len(faceTimeline.points) >= 3
    /\ \A k \in 1..Len(faceTimeline.points) : faceTimeline.points[k].faces = <<FaceC>>
    /\ StaticCropPathOnly
    /\ result = "resolved"

(***************************************************************************)
(* Properties of the temporary files (under Spec)                          *)
(***************************************************************************)
\* C18: every temporary artifact a conversion creates (frame image, segment clip,
\* concat list file) has been deleted when the conversion ends, on the success path
\* and on every failure path; only a file whose deletion threw may be left.
\* Stated for the videos whose duration ffprobe reports.
C18_NoTempFileLeftAtEnd ==
    (pc = "done" /\ RLt(RInt(0), videoInfo.duration)) => tempFiles \subseteq unlinkFailed

\* C19: a failing deletion of a temporary file is swallowed and does not change the
\* conversion's result: it never makes detectFacesAcrossTimeline return [], and a
\* conversion whose clips or list file could not be deleted resolves through the
\* dynamic path it had chosen.
C19_DeletionFailureSwallowed ==
    /\ detectionFailure # "unlink"
    /\ \A file \in unlinkFailed :
           file[1] = "frame" => (faceTimeline.defined => faceTimeline.points # <<>>)
    /\ (pc = "done" /\ unlinkFailed \cap ClipFiles # {})
           => (result = "resolved" /\ staticRenders = <<>>)

(***************************************************************************)
(***************************************************************************)
(* Properties of the model load (under SpecModels)                         *)
(***************************************************************************)
\* C20: under any interleaving of convertVideo calls, the detector model is
\* initialized at most once: as long as no load has failed, loadFromDisk has been
\* called at most one time, also when a call arrives while a load is awaited.
C20_ModelLoadStartedAtMostOnce ==
    (\A call \in 1..Len(loadCalls) : loadCalls[call] # "threw") => loadsStarted <= 1

(***************************************************************************)
(* Properties of smoothCropTimeline (under SpecSmoother)                   *)
(***************************************************************************)
\* The reduction pass of lines 859-879 applied to a sequence.
Reduction(points) ==
    ReductionPass(points, <<points[1]>>, 2)

\* C16: the reduction pass is idempotent: applied to a sequence that is already
\* its output, it returns the same sequence and drops no further point. Checked
\* on the output smoothCropTimeline returned and on the reduction of the
\* unsmoothed input.
C16_ReductionIdempotent ==
    pc = "smoothed" =>
        /\ Len(keyframes) >= 3 => Reduction(keyframesFiltered) = keyframesFiltered
        /\ Reduction(Reduction(keyframes)) = Reduction(keyframes)

\* The reduction dropped points of a timeline of four points, and two of the kept
\* points are close in time and similar: the last point, kept for being last.
C16_ReducedKeepsSimilarLast ==
    /\ pc = "smoothed"
    /\ Len(keyframes) = 4
    /\ Len(keyframesFiltered) = 3
    /\ LET kept == keyframesFiltered[2]
           last == keyframesFiltered[3]
       IN  /\ RLt(RAbs(RSub(last.cropOptions.x, kept.cropOptions.x)), RInt(20))
           /\ RLt(RAbs(RSub(last.cropOptions.y, kept.cropOptions.y)), RInt(10))
           /\ RLt(RSub(last.timestamp, kept.timestamp), RInt(5))

Largest(indexes) ==
    CHOOSE r \in indexes : \A q \in indexes : q <= r

Smallest(indexes) ==
    CHOOSE r \in indexes : \A q \in indexes : r <= q

\* The indexes of the smoothed points that are in the reduced sequence.
KeptIndexes ==
    {i \in 1..Len(keyframesSmoothed) :
        \E j \in 1..Len(keyframesFiltered) : keyframesFiltered[j] = keyframesSmoothed[i]}

LastKeptBefore(i) ==
    Largest({k \in KeptIndexes : k < i})

SimilarAndClose(current, kept) ==
    /\ RLt(RAbs(RSub(current.cropOptions.x, kept.cropOptions.x)), RInt(20))
    /\ RLt(RAbs(RSub(current.cropOptions.y, kept.cropOptions.y)), RInt(10))
    /\ RLt(RAbs(RSub(current.timestamp, kept.timestamp)), RInt(5))

\* C23: in the reduction of a smoothed sequence the first and the last point are
\* kept; any other point is dropped exactly when it is within 20px in x, 10px in y
\* and 5 s of the last point kept before it; and the kept points are in their
\* original order.
C23_DroppedIffNearLastKept ==
    (pc = "smoothed" /\ Len(keyframes) >= 3) =>
        LET n == Len(keyframesSmoothed)
        IN  /\ 1 \in KeptIndexes
            /\ n \in KeptIndexes
            /\ \A i \in 2..(n - 1) :
                   i \notin KeptIndexes <=>
                       SimilarAndClose(keyframesSmoothed[i],
                                       keyframesSmoothed[LastKeptBefore(i)])
            /\ Len(keyframesFiltered) = Cardinality(KeptIndexes)
            /\ \A j \in 1..(Len(keyframesFiltered) - 1) :
                   RLt(keyframesFiltered[j].timestamp, keyframesFiltered[j + 1].timestamp)

\* Of four points the second was dropped and the third kept, although the third
\* is near the second: it is not near the first, the last point kept before it.
C23_KeptThoughNearPredecessor ==
    /\ pc = "smoothed"
    /\ Len(keyframes) = 4
    /\ 2 \notin KeptIndexes
    /\ 3 \in KeptIndexes
    /\ SimilarAndClose(keyframesSmoothed[3], keyframesSmoothed[2])

\* round(0.7 * x_i + 0.3 * A_i) for the interior point i of the input sequence,
\* with A_i the average of before, at and after weighted by wPrev, 1 and wNext.
SmoothedFromInput(i, before, at, after) ==
    LET dtPrev == RSub(keyframes[i].timestamp, keyframes[i - 1].timestamp)
        dtNext == RSub(keyframes[i + 1].timestamp, keyframes[i].timestamp)
        totalDt == RAdd(dtPrev, dtNext)
        wPrev == RSub(RInt(1), RDiv(dtPrev, totalDt))
        wNext == RSub(RInt(1), RDiv(dtNext, totalDt))
        average == RDiv(RAdd(RAdd(RMul(wPrev, before), at), RMul(wNext, after)),
                        RAdd(RAdd(RInt(1), wPrev), wNext))
    IN  RInt(RRound(RAdd(RMul(Rat(7, 10), at), RMul(Rat(3, 10), average))))

\* C27: after the smoothing pass the x of every interior point i is
\* round(0.7 * x_i + 0.3 * A_i), with A_i the weighted average of the input
\* sequence's x at i - 1, i and i + 1, and the y is computed the same way from the
\* input's y.
C27_SmoothedFromInputNeighbours ==
    (pc = "smoothed" /\ Len(keyframes) >= 3) =>
        \A i \in 2..(Len(keyframes) - 1) :
            /\ keyframesSmoothed[i].cropOptions.x =
                   SmoothedFromInput(i, keyframes[i - 1].cropOptions.x,
                                     keyframes[i].cropOptions.x,
                                     keyframes[i + 1].cropOptions.x)
            /\ keyframesSmoothed[i].cropOptions.y =
                   SmoothedFromInput(i, keyframes[i - 1].cropOptions.y,
                                     keyframes[i].cropOptions.y,
                                     keyframes[i + 1].cropOptions.y)

\* Every crop of the sequence lies inside a frame of this width.
CropsInsideWidth(points, videoWidth) ==
    \A k \in 1..Len(points) :
        /\ RLe(RInt(0), points[k].cropOptions.x)
        /\ RLe(points[k].cropOptions.x, RInt(videoWidth - points[k].cropOptions.width))

\* Every crop of the sequence lies inside a frame of this height.
CropsInsideHeight(points, videoHeight) ==
    \A k \in 1..Len(points) :
        /\ RLe(RInt(0), points[k].cropOptions.y)
        /\ RLe(points[k].cropOptions.y, RInt(videoHeight - points[k].cropOptions.height))

\* C28: for every frame width that contains every crop of the input sequence,
\* every crop of the sequence after the smoothing pass, and of the sequence
\* smoothCropTimeline returns, lies inside that width too, after rounding; and
\* the same for every frame height.
C28_SmoothingKeepsCropsInsideFrame ==
    pc = "smoothed" =>
        /\ \A videoWidth \in 9..(9 + MaxCropLimit) :
               CropsInsideWidth(keyframes, videoWidth) =>
                   /\ CropsInsideWidth(keyframesSmoothed, videoWidth)
                   /\ CropsInsideWidth(keyframesFiltered, videoWidth)
        /\ \A videoHeight \in 16..(16 + MaxCropLimit) :
               CropsInsideHeight(keyframes, videoHeight) =>
                   /\ CropsInsideHeight(keyframesSmoothed, videoHeight)
                   /\ CropsInsideHeight(keyframesFiltered, videoHeight)

\* An interior point of four was moved to the right towards a neighbour at the
\* right edge of the tightest frame of the bounds, and a point was dropped.
C28_MovedTowardsEdge ==
    /\ pc = "smoothed"
    /\ Len(keyframes) = 4
    /\ Len(keyframesFiltered) < 4
    /\ CropsInsideWidth(keyframes, 9 + 25)
    /\ \E i \in 2..3 :
           /\ keyframes[i + 1].cropOptions.x = RInt(25)
           /\ RLt(keyframes[i].cropOptions.x, keyframesSmoothed[i].cropOptions.x)

\* C17: the smoothing pass never changes the first or the last point of a sequence
\* of length >= 3: their timestamp and crop x, y after the pass equal the input's.
C17_SmoothingKeepsEndPoints ==
    (pc = "smoothed" /\ Len(keyframes) >= 3) =>
        /\ Len(keyframesSmoothed) = Len(keyframes)
        /\ keyframesSmoothed[1] = keyframes[1]
        /\ keyframesSmoothed[Len(keyframes)] = keyframes[Len(keyframes)]

\* A sequence of four points has been smoothed, and both interior points moved.
C17_InteriorPointsSmoothed ==
    /\ pc = "smoothed"
    /\ Len(keyframes) = 4
    /\ keyframesSmoothed[2].cropOptions.x # keyframes[2].cropOptions.x
    /\ keyframesSmoothed[3].cropOptions.y # keyframes[3].cropOptions.y

(***************************************************************************)
(* Properties of the gap filler (under SpecGapFiller)                      *)
(***************************************************************************)
\* The points that had faces before the pass, earlier and later than point k.
ReliableBefore(k) ==
    {r \in 1..(k - 1) : detected[r].faces # <<>>}

ReliableAfter(k) ==
    {r \in (k + 1)..Len(detected) : detected[r].faces # <<>>}

\* The points without faces that have reliable points on both sides.
GapsBetween ==
    {k \in 1..Len(detected) :
         detected[k].faces = <<>> /\ ReliableBefore(k) # {} /\ ReliableAfter(k) # {}}

TimeFraction(k, before, after) ==
    RDiv(RSub(detected[k].timestamp, detected[before].timestamp),
         RSub(detected[after].timestamp, detected[before].timestamp))

Lerp(from, to, fraction) ==
    RAdd(from, RMul(RSub(to, from), fraction))

CropLerp(k, before, after) ==
    [x |-> Lerp(keyframes[before].cropOptions.x, keyframes[after].cropOptions.x,
                TimeFraction(k, before, after)),
     y |-> Lerp(keyframes[before].cropOptions.y, keyframes[after].cropOptions.y,
                TimeFraction(k, before, after))]

FirstFaceLerp(k, before, after) ==
    LET from == detected[before].faces[1]
        to == detected[after].faces[1]
        Rounded(a, b) == RRound(Lerp(RInt(a), RInt(b), TimeFraction(k, before, after)))
    IN  [x |-> Rounded(from.x, to.x),
         y |-> Rounded(from.y, to.y),
         width |-> Rounded(from.width, to.width),
         height |-> Rounded(from.height, to.height)]

\* The faces a zero-face point is filled with when only the points that had faces
\* before the fill are anchors.
FilledFromOriginalDetections(k) ==
    IF ReliableBefore(k) # {} /\ ReliableAfter(k) # {}
    THEN <<FirstFaceLerp(k, Largest(ReliableBefore(k)), Smallest(ReliableAfter(k)))>>
    ELSE IF ReliableBefore(k) # {} THEN detected[Largest(ReliableBefore(k))].faces
    ELSE IF ReliableAfter(k) # {} THEN detected[Smallest(ReliableAfter(k))].faces
    ELSE <<>>

\* C24: every zero-face point is filled from the nearest points on each side that
\* had faces before the fill started, never from a point filled earlier in the
\* pass, so its faces are determined by the original detections alone; the points
\* that had faces are left as they were.
C24_FilledFromOriginalDetectionsOnly ==
    pc = "filled" =>
        /\ Len(faceTimeline.points) = Len(detected)
        /\ \A k \in 1..Len(detected) :
               faceTimeline.points[k].faces =
                   IF detected[k].faces = <<>> THEN FilledFromOriginalDetections(k)
                   ELSE detected[k].faces

\* Two zero-face points in a row come before a point with two faces: the second
\* one follows a point that was filled before it, and holds both faces.
C24_GapAfterFilledGap ==
    /\ pc = "filled"
    /\ \E k \in 2..Len(detected) :
           /\ detected[k].faces = <<>>
           /\ detected[k - 1].faces = <<>>
           /\ ReliableBefore(k) = {}
           /\ ReliableAfter(k) # {}
           /\ Len(faceTimeline.points[k - 1].faces) = 2
           /\ Len(faceTimeline.points[k].faces) = 2

\* C13 (as claimed): a zero-face point with reliable points before and after it gets
\* the crop position that is the linear interpolation, by time fraction, between
\* the crop positions of its nearest reliable neighbour on each side.
C13_CropIsLerpOfNeighbourCrops ==
    pc = "filled" =>
        \A k \in GapsBetween :
            LET lerp == CropLerp(k, Largest(ReliableBefore(k)), Smallest(ReliableAfter(k)))
            IN  /\ keyframes[k].cropOptions.x = lerp.x
                /\ keyframes[k].cropOptions.y = lerp.y

\* C13 (as amended): a zero-face point with reliable points before and after it gets
\* exactly one face, whose x, y, width and height are each the rounded linear
\* interpolation, by time fraction, between the first faces of its nearest
\* reliable neighbour on each side, and its crop is the one calculateVerticalCrop
\* computes for that face.
C13_CropOfInterpolatedFirstFace ==
    pc = "filled" =>
        \A k \in GapsBetween :
            LET face == FirstFaceLerp(k, Largest(ReliableBefore(k)),
                                      Smallest(ReliableAfter(k)))
            IN  /\ faceTimeline.points[k].faces = <<face>>
                /\ keyframes[k].cropOptions = calculateVerticalCrop(<<face>>, videoInfo)

\* A zero-face point lies between a point with two faces and a point with one, and
\* its crop is not the interpolation of their crops.
C13_GapAfterTwoFaces ==
    /\ pc = "filled"
    /\ \E k \in GapsBetween :
           /\ Len(detected[Largest(ReliableBefore(k))].faces) = 2
           /\ Len(faceTimeline.points[k].faces) = 1
           /\ keyframes[k].cropOptions.x
                  # CropLerp(k, Largest(ReliableBefore(k)), Smallest(ReliableAfter(k))).x

\* C14: a zero-face point with reliable points on one side only gets exactly the
\* crop rectangle of the nearest reliable point on that side: the latest earlier
\* one (hold-last) or the earliest later one (hold-next).
C14_CropHeldFromNearestReliable ==
    pc = "filled" =>
        \A k \in 1..Len(detected) :
            detected[k].faces = <<>> =>
                /\ (ReliableBefore(k) # {} /\ ReliableAfter(k) = {})
                       => keyframes[k].cropOptions
                              = keyframes[Largest(ReliableBefore(k))].cropOptions
                /\ (ReliableBefore(k) = {} /\ ReliableAfter(k) # {})
                       => keyframes[k].cropOptions
                              = keyframes[Smallest(ReliableAfter(k))].cropOptions

\* A timeline has a zero-face point after two reliable points with different crops
\* and a zero-face point before them: the first holds the later one's crop, the
\* second the earlier one's.
C14_HeldLastAndHeldNext ==
    /\ pc = "filled"
    /\ Len(detected) = 4
    /\ detected[1].faces = <<>>
    /\ detected[4].faces = <<>>
    /\ detected[2].faces # <<>>
    /\ detected[3].faces # <<>>
    /\ keyframes[2].cropOptions # keyframes[3].cropOptions
    /\ keyframes[4].cropOptions = keyframes[3].cropOptions
    /\ keyframes[1].cropOptions = keyframes[2].cropOptions

\* ---------------------------------------------------------------------------
\* Properties of the segment renders and the concatenation (lines 721-807)
\* ---------------------------------------------------------------------------

AllSegmentsEnded ==
    \A i \in 1..Len(segmentState) : segmentState[i] = "ended"

SegmentStartsIncrease ==
    \A k \in 1..(Len(segments) - 1) : RLt(segments[k].start, segments[k + 1].start)

\* C21: while the concatenation runs every dispatched segment render has ended
\* without failing, and the list file names the clips in the order of the
\* segments, which is the order of increasing start time, whatever order the
\* renders ended in.
C21_ConcatAfterAllRendersInSegmentOrder ==
    pc = "concat" =>
        /\ AllSegmentsEnded
        /\ listContent = [k \in 1..Len(segments) |-> SegmentFile(k)]
        /\ SegmentStartsIncrease

\* The concatenation runs after the second segment's render ended before the
\* first segment's.
C21_ConcatAfterOutOfOrderRenders ==
    /\ pc = "concat"
    /\ Len(segments) >= 2
    /\ finished[1] # 1

\* C29: while the static render started after the failure of a segment render
\* runs, no segment render of the conversion is still running.
C29_FallbackAfterRendersSettled ==
    (pc = "staticRender" /\ fallbackCause = "segment") =>
        \A i \in 1..Len(segmentState) : segmentState[i] # "running"

\* ---------------------------------------------------------------------------
\* Properties of the frame loop's failures (lines 285-330)
\* ---------------------------------------------------------------------------

\* After a failing frame extraction detectFacesAcrossTimeline has returned the
\* empty timeline, and the conversion went on; a returned timeline is empty or
\* has one point for every sampled timestamp.
AllOrNothingTimeline ==
    /\ detectionFailure = "frameExtraction" =>
           /\ faceTimeline = [defined |-> TRUE, points |-> <<>>]
           /\ pc \in {"process", "staticRender", "done"}
           /\ result = "rejected" => staticRenders[Len(staticRenders)].state = "failed"
    /\ faceTimeline.defined =>
           \/ faceTimeline.points = <<>>
           \/ /\ detectionFailure = "none"
              /\ Len(faceTimeline.points) = Len(timestamps)
              /\ \A k \in 1..Len(timestamps) :
                     faceTimeline.points[k].timestamp = timestamps[k]

\* The step in which the detector first throws pushes the point of the frame's
\* timestamp with no faces, keeps every point pushed before it, and fails nothing.
ThrowEmptiesOneFrame ==
    (~detectorThrew /\ detectorThrew') =>
        /\ detected' = Append(detected, [timestamp |-> timestamps[Len(detected) + 1],
                                         faces |-> <<>>])
        /\ detectionFailure' = "none"
        /\ pc' \in {"extractFrame", "process"}
        /\ pc' = "process" => Len(faceTimeline'.points) = Len(timestamps)

\* C30: detectFacesAcrossTimeline is all-or-nothing: when the extraction of a
\* frame fails it returns the empty timeline, discarding the points collected
\* before, and never a partial timeline or a rejection; a detector that throws on
\* a frame gives that frame's timestamp an empty face list and nothing else.
C30_AllOrNothingTimeline ==
    []AllOrNothingTimeline /\ [][ThrowEmptiesOneFrame]_vars

\* The extraction of a frame failed after two frames had been analysed, the first
\* with a face and one with a throwing detector: the returned timeline is empty.
C30_DetectionsDiscarded ==
    /\ detectionFailure = "frameExtraction"
    /\ detectorThrew
    /\ Len(detected) >= 2
    /\ detected[1].faces # <<>>
    /\ faceTimeline.points = <<>>
    /\ pc = "process"

\* ---------------------------------------------------------------------------
\* Properties of the result of convertVideo (lines 180-187)
\* ---------------------------------------------------------------------------

\* C22: when the conversion of a video that lasts resolves after every sampled
\* frame was extracted and searched, the faces of the result are the faces the
\* detector found in the frame at the first sampled timestamp: no face found
\* there, no face box in the result.
C22_ResultFacesAreFirstFrameDetections ==
    (/\ result = "resolved"
     /\ RLt(RInt(0), videoInfo.duration)
     /\ detectionFailure = "none"
     /\ Len(detected) > 0
     /\ Len(detected) = Len(timestamps)) =>
        firstFaces = detected[1].faces

=============================================================================
